---- MODULE Spec2Model ----
(***************************************************************************)
(* A model of guc_composite.c: the composite-value engine of the settings  *)
(* subsystem.  Type names, signatures and literals are C strings, modelled *)
(* as sequences of one-character strings; memory is a heap of blocks whose *)
(* bytes are addressed by offset, so that the layout arithmetic of the     *)
(* code (offsets, strides, memcpy sizes) is the arithmetic of the model.   *)
(***************************************************************************)
EXTENDS Integers, Sequences, FiniteSets, TLC

VARIABLES
    expand_array_view_thd,   \* the threshold from which a variable array is shown in full
    guc_types_hashtab,  \* the type registry: type name -> type_definition
    mem,                \* the heap
    T,                  \* the type name of the host's value
    prev,               \* the host's value (a pointer; NULL when it has none)
    text,               \* the text last produced by the serializer or given to the parser
    result,             \* the pointer stored by the last parse / duplicate
    ret,                \* the value returned by the last operation
    pc,                 \* the operations performed so far, oldest first
    mem0,               \* the heap as it was before the last operation
    field_path,         \* the path last given to a path function
    leaf_text,          \* the value text last given to convert_path_composite
    cur_ptr             \* the pointer last returned by get_nest_field_ptr

vars == <<guc_types_hashtab, expand_array_view_thd, mem, T, prev, text, result, ret, pc, mem0,
          field_path, leaf_text, cur_ptr>>

\* Let([x \in {e} |-> body]) is body with x standing for e, computed once: a
\* local variable of the code that is assigned once and read several times
Let(f) == f[CHOOSE x \in DOMAIN f : TRUE]

(***************************************************************************)
(* C strings                                                               *)
(***************************************************************************)
NUL == "NUL"            \* the terminator '\0'
NULL == 0               \* the null pointer
NullStr == <<NUL>>      \* a char * that is NULL, where the model passes strings by value

WhiteSpace == {" ", "\t", "\n"}
isspace(c) == c \in WhiteSpace

Digits == <<"0", "1", "2", "3", "4", "5", "6", "7", "8", "9">>
isdigit(c) == \E i \in 1..10 : Digits[i] = c
DigitVal(c) == (CHOOSE i \in 1..10 : Digits[i] = c) - 1

Max(a, b) == IF a > b THEN a ELSE b

\* strchr(s + i - 1, ch): the first position >= i holding ch, 0 when there is none
strchr(s, i, ch) ==
    IF \E k \in i..Len(s) : s[k] = ch
    THEN CHOOSE k \in i..Len(s) : s[k] = ch /\ \A j \in i..(k - 1) : s[j] # ch
    ELSE 0

RECURSIVE DigitsValue(_, _, _)
DigitsValue(s, i, acc) ==
    IF i <= Len(s) /\ isdigit(s[i])
    THEN DigitsValue(s, i + 1, acc * 10 + DigitVal(s[i]))
    ELSE acc

\* the first position >= i that holds no white space
SkipSpace(s, i) ==
    CHOOSE k \in i..Max(i, Len(s) + 1) :
        /\ k > Len(s) \/ ~isspace(s[k])
        /\ \A j \in i..(k - 1) : isspace(s[j])

\* atoi(s + i - 1)
atoi(s, i) ==
    Let([j \in {SkipSpace(s, i)} |->
        IF j <= Len(s) /\ s[j] = "-" THEN 0 - DigitsValue(s, j + 1, 0)
        ELSE DigitsValue(s, IF j <= Len(s) /\ s[j] = "+" THEN j + 1 ELSE j, 0)])

\* strtok_r: the maximal runs of characters of s that are not in delims
RECURSIVE strtok_loop(_, _, _, _, _)
strtok_loop(s, i, delims, cur, acc) ==
    IF i > Len(s) THEN (IF cur = <<>> THEN acc ELSE Append(acc, cur))
    ELSE IF s[i] \in delims
         THEN strtok_loop(s, i + 1, delims, <<>>, IF cur = <<>> THEN acc ELSE Append(acc, cur))
         ELSE strtok_loop(s, i + 1, delims, Append(cur, s[i]), acc)

strtok(s, delims) == strtok_loop(s, 1, delims, <<>>, <<>>)

(***************************************************************************)
(* Type names                                                              *)
(***************************************************************************)
S_bool == <<"b", "o", "o", "l">>
S_int == <<"i", "n", "t">>
S_real == <<"r", "e", "a", "l">>
S_string == <<"s", "t", "r", "i", "n", "g">>
S_size == <<"s", "i", "z", "e">>
S_data == <<"d", "a", "t", "a">>
S_nil == <<"n", "i", "l">>

is_static_array_type(type_name) ==
    Let([size_str_begin \in {strchr(type_name, 1, "[")} |->
        /\ size_str_begin # 0
        /\ strchr(type_name, 1, "]") # 0
        /\ atoi(type_name, size_str_begin + 1) > 0])

is_dynamic_array_type(type_name) ==
    Let([size_str_begin \in {strchr(type_name, 1, "[")} |->
        /\ size_str_begin # 0
        /\ strchr(type_name, 1, "]") # 0
        /\ atoi(type_name, size_str_begin + 1) <= 0])

get_static_array_size(type_name) ==
    Let([size_str_begin \in {strchr(type_name, 1, "[")} |->
        IF size_str_begin = 0 THEN -1 ELSE atoi(type_name, size_str_begin + 1)])

\* the type name with its first [..] group cut out
get_array_basic_type(array_type) ==
    Let([brace_open \in {strchr(array_type, 1, "[")} |->
    Let([brace_close \in {IF brace_open = 0 THEN 0 ELSE strchr(array_type, brace_open, "]")} |->
        IF brace_open = 0 \/ brace_close = 0 THEN NullStr
        ELSE SubSeq(array_type, 1, brace_open - 1)
             \o SubSeq(array_type, brace_close + 1, Len(array_type))])])

is_atomic_type(type) == type \in {S_bool, S_int, S_real, S_string}

(***************************************************************************)
(* The registry and the layout calculator                                  *)
(***************************************************************************)
SizeofPtr == 8
SizeofInt == 4
SizeofBool == 1
SizeofDouble == 8

NoFields == <<>>

\* The built-in types are entries of the registry with no fields.
AtomicDef(name, size) ==
    [type |-> name, signature |-> <<>>, cnt_fields |-> 0, fields |-> NoFields,
     type_size |-> size, offset |-> size]

AtomicTypes ==
    (S_bool :> AtomicDef(S_bool, SizeofBool)) @@
    (S_int :> AtomicDef(S_int, SizeofInt)) @@
    (S_real :> AtomicDef(S_real, SizeofDouble)) @@
    (S_string :> AtomicDef(S_string, SizeofPtr))

HasDefinition(type_name) == type_name \in DOMAIN guc_types_hashtab
get_type_definition(type_name) == guc_types_hashtab[type_name]

get_struct_size(type_name) ==
    IF HasDefinition(type_name) THEN get_type_definition(type_name).type_size ELSE -1

get_struct_offset(type_name) ==
    IF HasDefinition(type_name) THEN get_type_definition(type_name).offset ELSE -1

RECURSIVE get_type_offset(_)
get_array_offset(type_name) ==
    Let([basic_type \in {get_array_basic_type(type_name)} |->
        IF basic_type = NullStr THEN -1 ELSE get_type_offset(basic_type)])

get_type_offset(type_name) ==
    IF type_name = NullStr THEN -1
    ELSE IF is_dynamic_array_type(type_name) THEN SizeofPtr
    ELSE IF is_static_array_type(type_name) THEN get_array_offset(type_name)
    ELSE get_struct_offset(type_name)

\* element_size + (element_size % element_offset), the distance between two
\* elements of an array of basic_type; -1 when the type is not known
RECURSIVE get_type_size(_)
ElementStride(basic_type) ==
    Let([element_offset \in {get_type_offset(basic_type)} |->
    Let([element_size \in {get_type_size(basic_type)} |->
        IF element_offset < 0 \/ element_size < 0 THEN -1
        ELSE element_size + (element_size % element_offset)])])

get_array_mem_size(type_name) ==
    Let([stride \in {ElementStride(get_array_basic_type(type_name))} |->
        IF stride < 0 THEN -1 ELSE get_static_array_size(type_name) * stride])

get_type_size(type_name) ==
    IF type_name = NullStr THEN -1
    ELSE IF is_dynamic_array_type(type_name) THEN SizeofPtr * 2
    ELSE IF is_static_array_type(type_name) THEN get_array_mem_size(type_name)
    ELSE get_struct_size(type_name)

get_dynamic_array_mem_size_with_length(type_name, length) ==
    Let([basic_type \in {get_array_basic_type(type_name)} |->
        IF basic_type = NullStr THEN -1
        ELSE Let([stride \in {ElementStride(basic_type)} |->
                 IF stride < 0 THEN -1 ELSE length * stride])])

get_element_offset_with_index(type_name, index) ==
    Let([basic_type \in {get_array_basic_type(type_name)} |->
        IF basic_type = NullStr THEN -1
        ELSE Let([stride \in {ElementStride(basic_type)} |->
                 IF stride < 0 THEN -1 ELSE stride * index])])

\* canonize_idx: the index a field key denotes, -1 when it does not start with a digit
canonize_idx(field) ==
    Let([cp \in {SkipSpace(field, 1)} |->
        IF cp > Len(field) \/ ~isdigit(field[cp]) THEN -1 ELSE atoi(field, 1)])

get_array_element_offset(type_name, field) ==
    Let([field_idx \in {canonize_idx(field)} |->
        IF field_idx < 0 THEN -1 ELSE get_element_offset_with_index(type_name, field_idx)])

\* the loop of get_struct_field_offset without the rounding up of the offset
RECURSIVE struct_field_offset_loop_packed(_, _, _, _)
struct_field_offset_loop_packed(fields, i, total_offset, field) ==
    IF i > Len(fields) THEN -1
    ELSE Let([local_off \in {get_type_offset(fields[i].type)} |->
             IF local_off < 0 THEN -1
             ELSE IF fields[i].name = field THEN total_offset
             ELSE Let([next_offset \in {total_offset + get_type_size(fields[i].type)} |->
                      struct_field_offset_loop_packed(fields, i + 1, next_offset, field)])])

\* the loop of get_struct_field_offset from entry i (1-based) on
RECURSIVE struct_field_offset_loop(_, _, _, _)
struct_field_offset_loop(fields, i, total_offset, field) ==
    IF i > Len(fields) THEN -1
    ELSE Let([local_off \in {get_type_offset(fields[i].type)} |->
             IF local_off < 0 THEN -1
             ELSE Let([aligned \in {IF local_off > 0 /\ total_offset % local_off # 0
                      THEN total_offset + local_off - (total_offset % local_off)
                      ELSE total_offset} |->
                      IF fields[i].name = field THEN aligned
                      ELSE Let([next_offset \in {aligned + get_type_size(fields[i].type)} |->
                               struct_field_offset_loop(fields, i + 1, next_offset, field)])])])

get_struct_field_offset(type_name, field) ==
    IF ~HasDefinition(type_name) THEN -1
    ELSE struct_field_offset_loop(get_type_definition(type_name).fields, 1, 0, field)

get_field_offset(type_name, field) ==
    IF type_name = NullStr \/ field = NullStr THEN -1
    ELSE Let([dynamic \in {is_dynamic_array_type(type_name)} |->
             IF dynamic /\ field = S_data THEN 0
             ELSE IF dynamic /\ field = S_size THEN SizeofPtr
             ELSE IF dynamic \/ is_static_array_type(type_name)
                  THEN get_array_element_offset(type_name, field)
             ELSE get_struct_field_offset(type_name, field)])

RECURSIVE struct_field_type_loop(_, _, _)
struct_field_type_loop(fields, i, field) ==
    IF i > Len(fields) THEN NullStr
    ELSE IF fields[i].name = field THEN fields[i].type
    ELSE struct_field_type_loop(fields, i + 1, field)

get_struct_field_type(type_name, field) ==
    IF ~HasDefinition(type_name) THEN NullStr
    ELSE struct_field_type_loop(get_type_definition(type_name).fields, 1, field)

get_field_type_name(type_name, field) ==
    IF type_name = NullStr \/ field = NullStr THEN NullStr
    ELSE Let([dynamic \in {is_dynamic_array_type(type_name)} |->
             IF dynamic /\ field = S_size THEN S_int
             ELSE IF dynamic /\ field = S_data THEN type_name
             ELSE IF dynamic \/ is_static_array_type(type_name)
                  THEN get_array_basic_type(type_name)
             ELSE get_struct_field_type(type_name, field)])

(***************************************************************************)
(* Registration: init_type_definition                                      *)
(***************************************************************************)
STRUCT_FIELDS_DELIMETER == {";"}
WordDelimiters == {" ", "\t", "\n"}

\* an entry of the fields array that the loop never filled in
Uninit == <<"?">>
UninitField == [type |-> Uninit, name |-> Uninit]

CountChar(s, ch) == Cardinality({i \in 1..Len(s) : s[i] = ch})

\* curr_offset rounded up to a multiple of type_offset
AlignUp(curr_offset, type_offset) ==
    IF curr_offset % type_offset # 0
    THEN curr_offset + type_offset - (curr_offset % type_offset)
    ELSE curr_offset

\* The inner loop of init_type_definition over the words of one field
\* definition.  acc is [ok, fields, max_offset, curr_offset]; an ereport(ERROR)
\* leaves the function at once, which is acc.ok = FALSE.
init_field_definition(acc, field_def_token) ==
    Let([words \in {strtok(field_def_token, WordDelimiters)} |->
        IF Len(words) = 0 THEN [acc EXCEPT !.ok = FALSE]
        ELSE Let([type_offset \in {get_type_offset(words[1])} |->
             Let([type_size \in {get_type_size(words[1])} |->
                 IF type_offset < 0 \/ type_size < 0 \/ Len(words) # 2
                 THEN [acc EXCEPT !.ok = FALSE]
                 ELSE [ok |-> TRUE,
                       fields |-> Append(acc.fields, [type |-> words[1], name |-> words[2]]),
                       max_offset |-> Max(acc.max_offset, type_offset),
                       curr_offset |-> AlignUp(acc.curr_offset, type_offset) + type_size]])])])

RECURSIVE init_fields_loop(_, _, _)
init_fields_loop(tokens, i, acc) ==
    IF i > Len(tokens) \/ ~acc.ok THEN acc
    ELSE Let([next_acc \in {init_field_definition(acc, tokens[i])} |->
             init_fields_loop(tokens, i + 1, next_acc)])

\* status: "ok"; "error" (ereport(ERROR): the definition is left as it was);
\* "sigfpe" (curr_offset % max_offset with max_offset = 0: the process is
\* killed, or the division yields 0 and .definition is what is then stored)
init_type_definition(definition) ==
    Let([sym \in {definition.signature} |->
    Let([acc \in {init_fields_loop(strtok(sym, STRUCT_FIELDS_DELIMETER), 1,
            [ok |-> TRUE, fields |-> <<>>, max_offset |-> 0, curr_offset |-> 0])} |->
        IF sym = <<>> \/ ~acc.ok THEN [status |-> "error", definition |-> definition]
        ELSE IF acc.max_offset = 0
        THEN [status |-> "sigfpe",
              definition |->
                  [type |-> definition.type,
                   signature |-> sym,
                   cnt_fields |-> 1 + CountChar(sym, ";"),
                   fields |-> [i \in 1..(1 + CountChar(sym, ";")) |-> UninitField],
                   type_size |-> acc.curr_offset,
                   offset |-> acc.max_offset]]
        ELSE [status |-> "ok",
              definition |->
                  [type |-> definition.type,
                   signature |-> sym,
                   cnt_fields |-> 1 + CountChar(sym, ";"),
                   fields |-> [i \in 1..(1 + CountChar(sym, ";")) |->
                                  IF i <= Len(acc.fields) THEN acc.fields[i] ELSE UninitField],
                   type_size |-> AlignUp(acc.curr_offset, acc.max_offset),
                   offset |-> acc.max_offset]]])])

\* A definition before init_type_definition has filled it in.
NewDefinition(name, signature) ==
    [type |-> name, signature |-> signature, cnt_fields |-> 0, fields |-> NoFields,
     type_size |-> 0, offset |-> 0]

\* The host's registration call: a name is registered once; a failed
\* init_type_definition leaves the registry as it was.
DefineCustomStructType(name, signature) ==
    Let([r \in {init_type_definition(NewDefinition(name, signature))} |->
        IF name \in DOMAIN guc_types_hashtab \/ r.status # "ok" THEN guc_types_hashtab
        ELSE guc_types_hashtab @@ (name :> r.definition)])

(***************************************************************************)
(* The heap.  A block is a sequence of bytes; a value of w bytes stored at *)
(* offset o is kept whole in byte o and the w - 1 bytes after it are 0, so *)
(* offsets, sizes and memcpy lengths are those of the code.  A pointer to  *)
(* the start of a block is the block's number, a pointer into a block is   *)
(* [b |-> block, o |-> offset].  Buffers holding type names are passed by  *)
(* value and are not blocks of the model.                                  *)
(***************************************************************************)
Garbage == 85           \* what a byte of freshly allocated memory reads as

Block(kind, data) == [kind |-> kind, data |-> data, frees |-> 0, clob |-> FALSE]

\* adj: the block that lies right behind the block a call writes past the end of
\*      (0: the allocator's slack); ovf: a write went past the end of a block;
\* ub:  what the build makes of a read of parts[-1]
\* stack: the call stack has run out (a recursion that does not end)
EmptyHeap == [blk |-> <<>>, adj |-> NULL, ovf |-> FALSE, ub |-> "crash", scheme |-> NULL,
              stack |-> FALSE]

Ptr(b, o) == [b |-> b, o |-> o]
At(p, offset) == [b |-> p.b, o |-> p.o + offset]
Root(b) == Ptr(b, 0)

guc_malloc(m, size) ==
    [m EXCEPT !.blk = Append(@, Block("raw", [i \in 1..size |-> Garbage]))]

guc_strdup(m, chars) ==
    [m EXCEPT !.blk = Append(@, Block("str", chars \o <<NUL>>))]

\* the pointer returned by the allocation that made m
New(m) == Len(m.blk)

guc_free(m, b) ==
    IF b = NULL THEN m
    ELSE IF b \notin 1..Len(m.blk) THEN [m EXCEPT !.ovf = TRUE]
    ELSE [m EXCEPT !.blk[b].frees = @ + 1]

Live(m, b) == b \in 1..Len(m.blk) /\ m.blk[b].frees = 0
LiveBlocks(m) == {b \in 1..Len(m.blk) : m.blk[b].frees = 0 /\ m.blk[b].kind # "stack"}

InBlock(m, p, w) ==
    /\ p.b \in 1..Len(m.blk)
    /\ p.o >= 0
    /\ p.o + w <= Len(m.blk[p.b].data)

Load(m, p) == IF InBlock(m, p, 1) THEN m.blk[p.b].data[p.o + 1] ELSE Garbage

\* a store of w bytes; past the end of the block it lands in the slack or
\* in the block behind
Store(m, p, w, v) ==
    IF InBlock(m, p, w)
    THEN [m EXCEPT !.blk[p.b].data =
              [i \in 1..Len(@) |->
                  IF i = p.o + 1 THEN v
                  ELSE IF i > p.o + 1 /\ i <= p.o + w THEN 0
                  ELSE @[i]]]
    ELSE IF m.adj \in 1..Len(m.blk)
         THEN [m EXCEPT !.ovf = TRUE, !.blk[m.adj].clob = TRUE]
         ELSE [m EXCEPT !.ovf = TRUE]

\* memcpy(dst, src, n); memset(dst, 0, n)
Memcpy(m, dst, src, n) ==
    [m EXCEPT !.blk[dst.b].data =
        [i \in 1..Len(@) |->
            IF i > dst.o /\ i <= dst.o + n
            THEN Load(m, At(src, i - dst.o - 1))
            ELSE @[i]]]

Memset0(m, dst, n) ==
    [m EXCEPT !.blk[dst.b].data =
        [i \in 1..Len(@) |-> IF i > dst.o /\ i <= dst.o + n THEN 0 ELSE @[i]]]

\* the C string held by a "str" block: the characters before the first NUL
CString(m, b) ==
    Let([d \in {m.blk[b].data} |-> SubSeq(d, 1, strchr(d, 1, NUL) - 1)])

\* dynamic_array_size(ptr): the int behind the data pointer
dynamic_array_size(m, p) == Load(m, At(p, SizeofPtr))

(***************************************************************************)
(* Duplicate                                                               *)
(***************************************************************************)
RECURSIVE struct_dup_impl(_, _, _, _)

\* the element loop of static_array_duplicate and dynamic_array_duplicate
RECURSIVE array_duplicate_loop(_, _, _, _, _, _)
array_duplicate_loop(m, dest, src, type, arr_size, i) ==
    IF i >= arr_size THEN m
    ELSE Let([element_offset \in {get_element_offset_with_index(type, i)} |->
         Let([m1 \in {struct_dup_impl(m, At(dest, element_offset), At(src, element_offset),
                             get_array_basic_type(type))} |->
             array_duplicate_loop(m1, dest, src, type, arr_size, i + 1)])])

static_array_duplicate(m, dest_struct, src_struct, type) ==
    array_duplicate_loop(m, dest_struct, src_struct, type, get_static_array_size(type), 0)

\* dynamic_array_duplicate without the final copy of the array size
dynamic_array_duplicate_no_size(m, dest_struct, src_struct, type) ==
    Let([arr_size \in {dynamic_array_size(m, src_struct)} |->
        IF arr_size = 0
        THEN Store(m, dest_struct, SizeofPtr, NULL)
        ELSE Let([m1 \in {guc_malloc(m, get_dynamic_array_mem_size_with_length(type, arr_size))} |->
             Let([m2 \in {Store(m1, dest_struct, SizeofPtr, New(m1))} |->
                 array_duplicate_loop(m2, Root(New(m1)), Root(Load(m, src_struct)),
                                      type, arr_size, 0)])])])

dynamic_array_duplicate(m, dest_struct, src_struct, type) ==
    Let([arr_size \in {dynamic_array_size(m, src_struct)} |->
        IF arr_size = 0
        THEN Let([m1 \in {Store(m, dest_struct, SizeofPtr, NULL)} |->
                 Store(m1, At(dest_struct, SizeofPtr), SizeofPtr, NULL)])
        ELSE Let([m1 \in {guc_malloc(m, get_dynamic_array_mem_size_with_length(type, arr_size))} |->
             Let([m2 \in {Store(m1, dest_struct, SizeofPtr, New(m1))} |->
             Let([m3 \in {array_duplicate_loop(m2, Root(New(m1)), Root(Load(m, src_struct)),
                                      type, arr_size, 0)} |->
                 Store(m3, At(dest_struct, 2 * SizeofInt), SizeofInt, arr_size)])])])])

RECURSIVE struct_duplicate_loop(_, _, _, _, _)
struct_duplicate_loop(m, dest_struct, src_struct, type, i) ==
    Let([struct_type \in {get_type_definition(type)} |->
        IF i > struct_type.cnt_fields THEN m
        ELSE Let([field_offset \in {get_field_offset(type, struct_type.fields[i].name)} |->
             Let([m1 \in {struct_dup_impl(m, At(dest_struct, field_offset),
                                 At(src_struct, field_offset), struct_type.fields[i].type)} |->
                 struct_duplicate_loop(m1, dest_struct, src_struct, type, i + 1)])])])

\* struct_duplicate with the string case copying the pointer instead of the text
struct_duplicate_shallow(m, dest_struct, src_struct, type) ==
    IF ~HasDefinition(type) THEN m
    ELSE IF get_type_definition(type).cnt_fields = 0
    THEN Memcpy(m, dest_struct, src_struct, get_type_definition(type).type_size)
    ELSE struct_duplicate_loop(m, dest_struct, src_struct, type, 1)

struct_duplicate(m, dest_struct, src_struct, type) ==
    IF ~HasDefinition(type) THEN m
    ELSE IF get_type_definition(type).cnt_fields = 0
    THEN IF type = S_string
         THEN IF Load(m, src_struct) # NULL
              THEN Let([m1 \in {guc_strdup(m, CString(m, Load(m, src_struct)))} |->
                       Store(m1, dest_struct, SizeofPtr, New(m1))])
              ELSE Store(m, dest_struct, SizeofPtr, NULL)
         ELSE Memcpy(m, dest_struct, src_struct, get_type_definition(type).type_size)
    ELSE struct_duplicate_loop(m, dest_struct, src_struct, type, 1)

struct_dup_impl(m, dest_struct, src_struct, type) ==
    IF is_static_array_type(type) THEN static_array_duplicate(m, dest_struct, src_struct, type)
    ELSE IF is_dynamic_array_type(type)
         THEN dynamic_array_duplicate(m, dest_struct, src_struct, type)
    ELSE struct_duplicate(m, dest_struct, src_struct, type)

\* returns the heap and, in .p, the duplicate
struct_dup(m, structp, type) ==
    IF structp = NULL THEN [m |-> m, p |-> NULL]
    ELSE Let([m1 \in {guc_malloc(m, get_type_size(type))} |->
             [m |-> struct_dup_impl(m1, Root(New(m1)), Root(structp), type), p |-> New(m1)]])

(***************************************************************************)
(* Compare                                                                 *)
(***************************************************************************)
\* the characters of the model in ASCII order, for strcmp
Alphabet == <<"\t", "\n", " ", "'", ",", "-", "0", "1", "2", "3", "4", "5", "6", "7",
              "8", "9", ":", ";", "=", "?", "[", "\\", "]", "a", "b", "c", "d", "e",
              "f", "g", "h", "i", "j", "k", "l", "m", "n", "o", "p", "q", "r", "s",
              "t", "u", "v", "w", "x", "y", "z", "{", "}">>
CharCode(c) == IF c = NUL THEN 0 ELSE CHOOSE i \in 1..Len(Alphabet) : Alphabet[i] = c

RECURSIVE strcmp_loop(_, _, _)
strcmp_loop(a, b, i) ==
    Let([ca \in {IF i <= Len(a) THEN CharCode(a[i]) ELSE 0} |->
    Let([cb \in {IF i <= Len(b) THEN CharCode(b[i]) ELSE 0} |->
        IF ca # cb THEN ca - cb
        ELSE IF ca = 0 THEN 0
        ELSE strcmp_loop(a, b, i + 1)])])

strcmp(a, b) == strcmp_loop(a, b, 1)

\* a - b as the 32-bit subtraction of the machine computes it (it wraps
\* around), written so that no intermediate value leaves the 32-bit range
INT_MAX == 2147483647
IntSub(a, b) ==
    IF a >= 0 /\ b < 0 /\ a > INT_MAX + b
    THEN ((a - INT_MAX) - 1) + ((0 - (b + INT_MAX)) - 1)
    ELSE IF a < 0 /\ b > 0 /\ a < (b - INT_MAX) - 1
    THEN ((a + INT_MAX) + 1) + ((INT_MAX - b) + 1)
    ELSE a - b

Sign(res) == IF res = 0 THEN 0 ELSE IF res > 0 THEN 1 ELSE -1

RECURSIVE struct_cmp(_, _, _, _)

RECURSIVE array_data_cmp_loop(_, _, _, _, _, _, _)
array_data_cmp_loop(m, first, second, base_type, base_type_size, size, i) ==
    IF i >= size THEN 0
    ELSE Let([res \in {struct_cmp(m, At(first, base_type_size * i), At(second, base_type_size * i),
                        base_type)} |->
             IF res # 0 THEN res
             ELSE array_data_cmp_loop(m, first, second, base_type, base_type_size, size, i + 1)])

array_data_cmp(m, first, second, type, size) ==
    Let([base_type \in {get_array_basic_type(type)} |->
        array_data_cmp_loop(m, first, second, base_type, get_type_size(base_type), size, 0)])

dynamic_array_cmp(m, first, second, type) ==
    Let([first_size \in {dynamic_array_size(m, first)} |->
    Let([cmp \in {IntSub(first_size, dynamic_array_size(m, second))} |->
        IF cmp # 0 THEN cmp
        ELSE array_data_cmp(m, Root(Load(m, first)), Root(Load(m, second)), type, first_size)])])

RECURSIVE structure_cmp_loop(_, _, _, _, _)
structure_cmp_loop(m, first, second, type, i) ==
    Let([struct_type \in {get_type_definition(type)} |->
        IF i > struct_type.cnt_fields THEN 0
        ELSE Let([field_offset \in {get_field_offset(type, struct_type.fields[i].name)} |->
             Let([res \in {struct_cmp(m, At(first, field_offset), At(second, field_offset),
                            struct_type.fields[i].type)} |->
                 IF res # 0 THEN res
                 ELSE structure_cmp_loop(m, first, second, type, i + 1)])])])

structure_cmp(m, first, second, type) ==
    IF ~HasDefinition(type) THEN 2
    ELSE IF get_type_definition(type).cnt_fields = 0
    THEN Let([a \in {Load(m, first)} |->
         Let([b \in {Load(m, second)} |->
             IF type = S_string
             THEN IF a = NULL /\ b = NULL THEN 0
                  ELSE IF a = NULL THEN -1
                  ELSE IF b = NULL THEN 1
                  ELSE Sign(strcmp(CString(m, a), CString(m, b)))
             ELSE IF type = S_bool THEN Sign(a - b)
             ELSE IF type = S_int THEN Sign(IntSub(a, b))
             ELSE IF type = S_real THEN Sign(a - b)
             ELSE 2])])
    ELSE structure_cmp_loop(m, first, second, type, 1)

struct_cmp(m, first, second, type) ==
    IF is_static_array_type(type)
    THEN array_data_cmp(m, first, second, type, get_static_array_size(type))
    ELSE IF is_dynamic_array_type(type) THEN dynamic_array_cmp(m, first, second, type)
    ELSE structure_cmp(m, first, second, type)

(***************************************************************************)
(* Free                                                                    *)
(***************************************************************************)
RECURSIVE free_aux_struct_mem(_, _, _)

RECURSIVE free_aux_mem_arr_loop(_, _, _, _, _)
free_aux_mem_arr_loop(m, delptr, type, arr_size, i) ==
    IF i >= arr_size THEN m
    ELSE Let([m1 \in {free_aux_struct_mem(m, At(delptr, get_element_offset_with_index(type, i)),
                                 get_array_basic_type(type))} |->
             free_aux_mem_arr_loop(m1, delptr, type, arr_size, i + 1)])

free_aux_mem_stat_arr(m, delptr, type) ==
    free_aux_mem_arr_loop(m, delptr, type, get_static_array_size(type), 0)

free_aux_mem_dyn_arr(m, delptr, type) ==
    Let([m1 \in {free_aux_mem_arr_loop(m, delptr, type, get_static_array_size(type), 0)} |->
    Let([m2 \in {guc_free(m1, Load(m1, delptr))} |->
        Store(m2, delptr, SizeofPtr, NULL)])])

RECURSIVE free_aux_structure_mem_loop(_, _, _, _)
free_aux_structure_mem_loop(m, delptr, type, i) ==
    Let([struct_type \in {get_type_definition(type)} |->
        IF i > struct_type.cnt_fields THEN m
        ELSE Let([m1 \in {free_aux_struct_mem(m,
                     At(delptr, get_field_offset(type, struct_type.fields[i].name)),
                     struct_type.fields[i].type)} |->
                 free_aux_structure_mem_loop(m1, delptr, type, i + 1)])])

free_aux_structure_mem(m, delptr, type) ==
    IF ~HasDefinition(type) THEN m
    ELSE IF get_type_definition(type).cnt_fields = 0
    THEN IF type = S_string
         THEN Let([m1 \in {guc_free(m, Load(m, delptr))} |-> Store(m1, delptr, SizeofPtr, NULL)])
         ELSE m
    ELSE free_aux_structure_mem_loop(m, delptr, type, 1)

free_aux_struct_mem(m, delptr, type) ==
    Let([m1 \in {IF is_static_array_type(type) THEN free_aux_mem_stat_arr(m, delptr, type) ELSE m} |->
    Let([m2 \in {IF is_dynamic_array_type(type) THEN free_aux_mem_dyn_arr(m1, delptr, type) ELSE m1} |->
        free_aux_structure_mem(m2, delptr, type)])])

free_struct(m, delptr, type) ==
    Let([m1 \in {free_aux_struct_mem(m, Root(delptr), type)} |-> guc_free(m1, delptr)])

(***************************************************************************)
(* The scanner.  It reads the parser's scratch copy of the text: s is the  *)
(* content of the buffer, terminator included, and a char * into it is the *)
(* position (from 1) it points at; 0 is NULL.                              *)
(***************************************************************************)
PARSER_OK == 0
PARSER_ERR == 2
PARSER_NOT_FOUND == 3

\* *c
Ch(s, c) == IF c \in 1..Len(s) THEN s[c] ELSE NUL

\* the C string that starts at position c
StrAt(s, c) == SubSeq(s, c, strchr(s, c, NUL) - 1)

\* st is <<stop, braces_cntr, brackets_cntr, in_str, quote_cntr>>: stop is the
\* position at which the for loop has stopped, 0 while it runs
find_same_level_symbol(s, start, symbol) ==
    LET \* one pass of the for loop, at position c
        step(st, c) ==
            IF st[1] # 0 THEN st
            ELSE Let([ch \in {Ch(s, c)} |->
                IF \/ ch = NUL
                   \/ ch = symbol /\ ~st[4] /\ st[2] = 0 /\ st[3] = 0
                THEN <<c, st[2], st[3], st[4], st[5]>>
                ELSE Let([braces \in {IF st[4] THEN st[2]
                         ELSE IF ch = "{" THEN st[2] + 1
                         ELSE IF ch = "}" THEN st[2] - 1
                         ELSE st[2]} |->
                     Let([brackets \in {IF st[4] THEN st[3]
                         ELSE IF ch = "[" THEN st[3] + 1
                         ELSE IF ch = "]" THEN st[3] - 1
                         ELSE st[3]} |->
                     Let([quote \in {IF ch # "'" THEN <<st[4], st[5]>>
                         ELSE IF st[4] /\ st[5] = 0 /\ Ch(s, c + 1) # "'"
                         THEN <<FALSE, 0>>
                         ELSE IF ~st[4] THEN <<TRUE, 0>>
                         ELSE <<st[4], 1 - st[5]>>} |->
                         <<IF braces < 0 \/ brackets < 0 THEN c ELSE 0,
                           braces, brackets, quote[1], quote[2]>>])])])])
        RECURSIVE run(_, _, _)
        \* the passes at the positions a..b, the first half before the second
        run(st, a, b) ==
            IF a >= b THEN step(st, a)
            ELSE Let([half \in {run(st, a, (a + b) \div 2)} |->
                     run(half, ((a + b) \div 2) + 1, b)])
    IN Let([c \in {run(<<0, 0, 0, FALSE, 0>>, start, Max(start, Len(s) + 1))[1]} |->
           [status |-> IF Ch(s, c) = symbol THEN PARSER_OK ELSE PARSER_NOT_FOUND,
            res_str |-> c]])

\* the part get_index and get_name share: the nearer of the next ',' and the
\* closing symbol on the level of start; 0 when there is no closing symbol
NextDelimiter(s, start, close) ==
    Let([comma \in {find_same_level_symbol(s, start, ",")} |->
    Let([end \in {find_same_level_symbol(s, start, close)} |->
        IF end.status = PARSER_OK
        THEN IF comma.status # PARSER_OK \/ end.res_str < comma.res_str
             THEN end.res_str ELSE comma.res_str
        ELSE 0])])

\* the text between start and colon without the white space around it, as
\* <<first, behind the last>>
Trimmed(s, start, colon) ==
    Let([first \in {Max(start, CHOOSE i \in start..Max(start, colon) :
                /\ i >= colon \/ ~isspace(Ch(s, i))
                /\ \A j \in start..(i - 1) : isspace(Ch(s, j)))} |->
        <<first, CHOOSE e \in first..Max(first, colon) :
                     /\ e <= first \/ ~isspace(Ch(s, e - 1))
                     /\ \A j \in (e + 1)..colon : isspace(Ch(s, j - 1))>>])

get_index(s, start) ==
    Let([next_delimiter \in {NextDelimiter(s, start, "]")} |->
        IF next_delimiter = 0
        THEN [status |-> PARSER_ERR, res_int |-> 0, parse_end |-> 0]
        ELSE Let([colon \in {find_same_level_symbol(s, start, ":")} |->
                 IF colon.status # PARSER_OK \/ colon.res_str > next_delimiter
                 THEN [status |-> PARSER_NOT_FOUND, res_int |-> 0, parse_end |-> next_delimiter]
                 ELSE Let([index \in {Trimmed(s, start, colon.res_str)} |->
                          IF index[1] >= index[2]
                             \/ \E p \in index[1]..(index[2] - 1) : ~isdigit(Ch(s, p))
                          THEN [status |-> PARSER_ERR, res_int |-> 0,
                                parse_end |-> next_delimiter]
                          ELSE [status |-> PARSER_OK, res_int |-> DigitsValue(s, index[1], 0),
                                parse_end |-> next_delimiter]])])])

\* the parser's scratch copy of the text (scheme in parse_composite); the
\* heap remembers which block it is
Buf(m) == m.blk[m.scheme].data

\* *c = ch in the scratch copy
SetCh(m, c, ch) == [m EXCEPT !.blk[m.scheme].data[c] = ch]

\* res_str is the block of the copied name; the copy is made with guc_malloc
get_name(m, start) ==
    Let([s \in {Buf(m)} |->
    Let([next_delimiter \in {NextDelimiter(s, start, "}")} |->
        IF next_delimiter = 0
        THEN [status |-> PARSER_ERR, res_str |-> NULL, parse_end |-> 0, m |-> m]
        ELSE Let([colon \in {find_same_level_symbol(s, start, ":")} |->
                 IF colon.status # PARSER_OK
                 THEN [status |-> PARSER_ERR, res_str |-> NULL,
                       parse_end |-> next_delimiter, m |-> m]
                 ELSE Let([name \in {Trimmed(s, start, colon.res_str)} |->
                          IF name[1] >= name[2]
                          THEN [status |-> PARSER_ERR, res_str |-> NULL,
                                parse_end |-> next_delimiter, m |-> m]
                          ELSE Let([m1 \in {guc_strdup(m, SubSeq(s, name[1], name[2] - 1))} |->
                                   [status |-> PARSER_OK, res_str |-> New(m1),
                                    parse_end |-> next_delimiter, m |-> m1]])])])])])

\* get_max_index without the check of the style
get_max_index_any_style(s, start) ==
    LET RECURSIVE loop(_, _, _)
        \* the while loop
        loop(next_del, state, index) ==
            IF Ch(s, next_del) = "]" THEN [status |-> PARSER_OK, res_int |-> index]
            ELSE Let([next_idx_st \in {get_index(s, next_del + 1)} |->
                     IF next_idx_st.status = PARSER_ERR
                     THEN [status |-> PARSER_ERR, res_int |-> 0]
                     ELSE loop(next_idx_st.parse_end, state,
                               IF next_idx_st.status = PARSER_OK
                               THEN Max(index, next_idx_st.res_int) ELSE index + 1)])
    IN Let([index_state \in {get_index(s, start)} |->
           IF index_state.status = PARSER_ERR THEN [status |-> PARSER_ERR, res_int |-> 0]
           ELSE loop(index_state.parse_end,
                     IF index_state.status = PARSER_OK THEN 1 ELSE -1,
                     IF index_state.status = PARSER_OK THEN index_state.res_int ELSE 0)])

get_max_index(s, start) ==
    LET RECURSIVE loop(_, _, _)
        \* the while loop
        loop(next_del, state, index) ==
            IF Ch(s, next_del) = "]" THEN [status |-> PARSER_OK, res_int |-> index]
            ELSE Let([next_idx_st \in {get_index(s, next_del + 1)} |->
                     IF \/ next_idx_st.status = PARSER_ERR
                        \/ next_idx_st.status = PARSER_OK /\ state = -1
                        \/ next_idx_st.status = PARSER_NOT_FOUND /\ state = 1
                     THEN [status |-> PARSER_ERR, res_int |-> 0]
                     ELSE loop(next_idx_st.parse_end, state,
                               IF next_idx_st.status = PARSER_OK
                               THEN Max(index, next_idx_st.res_int) ELSE index + 1)])
    IN Let([index_state \in {get_index(s, start)} |->
           IF index_state.status = PARSER_ERR THEN [status |-> PARSER_ERR, res_int |-> 0]
           ELSE loop(index_state.parse_end,
                     IF index_state.status = PARSER_OK THEN 1 ELSE -1,
                     IF index_state.status = PARSER_OK THEN index_state.res_int ELSE 0)])

is_empty_array(s, start, end) == SkipSpace(s, start + 1) = end

\* 0 is NULL
check_braces(s, start, open, close) ==
    IF Ch(s, start) # open THEN 0
    ELSE Let([search_res \in {find_same_level_symbol(s, start + 1, close)} |->
             IF search_res.status = PARSER_OK THEN search_res.res_str ELSE 0])

check_array_syntax(s, start) ==
    Let([parse_end \in {check_braces(s, start, "[", "]")} |->
        IF parse_end = 0 THEN [status |-> PARSER_ERR, parse_end |-> 0, res_int |-> 0]
        ELSE IF is_empty_array(s, start, parse_end)
        THEN [status |-> PARSER_OK, parse_end |-> parse_end, res_int |-> 0]
        ELSE Let([max_idx_state \in {get_max_index(s, start + 1)} |->
                 [status |-> max_idx_state.status, parse_end |-> parse_end,
                  res_int |-> max_idx_state.res_int]])])

(***************************************************************************)
(* The conversions the parser borrows from the server.  Texts here hold no *)
(* octal, hexadecimal or fractional number, no unit and no backslash       *)
(* escape other than \n and \t.                                            *)
(***************************************************************************)
IsPrefix(a, b) == Len(a) <= Len(b) /\ SubSeq(b, 1, Len(a)) = a

\* the last character copied stands for the closing quote and is cut off
DeescapeQuotedString(str) ==
    LET s == Tail(str)
        RECURSIVE loop(_)
        loop(i) ==
            IF i > Len(s) THEN <<>>
            ELSE IF s[i] = "\\"
            THEN <<IF Ch(s, i + 1) = "n" THEN "\n" ELSE IF Ch(s, i + 1) = "t" THEN "\t"
                   ELSE Ch(s, i + 1)>> \o loop(i + 2)
            ELSE IF s[i] = "'" /\ Ch(s, i + 1) = "'" THEN <<"'">> \o loop(i + 2)
            ELSE <<s[i]>> \o loop(i + 1)
    IN Let([newStr \in {loop(1)} |->
           IF newStr = <<>> THEN <<>> ELSE SubSeq(newStr, 1, Len(newStr) - 1)])

parse_bool(value) ==
    IF value # <<>> /\ (\/ IsPrefix(value, <<"t", "r", "u", "e">>)
                        \/ IsPrefix(value, <<"y", "e", "s">>)
                        \/ value = <<"o", "n">>
                        \/ value = <<"1">>)
    THEN [ok |-> TRUE, result |-> 1]
    ELSE IF value # <<>> /\ (\/ IsPrefix(value, <<"f", "a", "l", "s", "e">>)
                             \/ IsPrefix(value, <<"n", "o">>)
                             \/ Len(value) >= 2 /\ IsPrefix(value, <<"o", "f", "f">>)
                             \/ value = <<"0">>)
    THEN [ok |-> TRUE, result |-> 0]
    ELSE [ok |-> FALSE, result |-> 0]

\* parse_int, and parse_real on whole numbers
parse_int(value) ==
    Let([sign \in {SkipSpace(value, 1)} |->
    Let([first \in {IF Ch(value, sign) \in {"-", "+"} THEN sign + 1 ELSE sign} |->
    Let([endptr \in {CHOOSE e \in first..(Len(value) + 1) :
            /\ \A k \in first..(e - 1) : isdigit(value[k])
            /\ ~isdigit(Ch(value, e))} |->
        IF endptr = first \/ SkipSpace(value, endptr) <= Len(value)
        THEN [ok |-> FALSE, result |-> 0]
        ELSE [ok |-> TRUE,
              result |-> IF Ch(value, sign) = "-" THEN 0 - DigitsValue(value, first, 0)
                         ELSE DigitsValue(value, first, 0)]])])])

(***************************************************************************)
(* The parser.  Every function returns the heap it leaves in .m            *)
(***************************************************************************)
\* a lone quote makes DeescapeQuotedString write in front of its buffer
parse_atomic_type(m, strval, struct_type, result_ptr) ==
    Let([value_text \in {StrAt(Buf(m), strval)} |->
    Let([prepared_strval \in {IF Ch(value_text, 1) = "'" THEN DeescapeQuotedString(value_text) ELSE value_text} |->
    Let([m0 \in {IF value_text = <<"'">> THEN [m EXCEPT !.ovf = TRUE] ELSE m} |->
    Let([end \in {strval + Len(value_text) - 1} |->
        IF struct_type = S_bool
        THEN Let([r \in {parse_bool(prepared_strval)} |->
                 [status |-> IF r.ok THEN PARSER_OK ELSE PARSER_ERR, parse_end |-> end,
                  m |-> Store(m0, result_ptr, SizeofBool, r.result)]])
        ELSE IF struct_type \in {S_int, S_real}
        THEN Let([r \in {parse_int(prepared_strval)} |->
                 [status |-> IF r.ok THEN PARSER_OK ELSE PARSER_ERR, parse_end |-> end,
                  m |-> Store(m0, result_ptr,
                              IF struct_type = S_int THEN SizeofInt ELSE SizeofDouble,
                              r.result)]])
        ELSE IF struct_type = S_string
        THEN IF prepared_strval = S_nil
             THEN [status |-> PARSER_OK, parse_end |-> end,
                   m |-> Store(m0, result_ptr, SizeofPtr, NULL)]
             ELSE Let([m1 \in {guc_strdup(m0, prepared_strval)} |->
                      [status |-> PARSER_OK, parse_end |-> end,
                       m |-> Store(m1, result_ptr, SizeofPtr, New(m1))]])
        ELSE [status |-> PARSER_ERR, parse_end |-> end, m |-> m0]])])])])

RECURSIVE parse_composite_impl(_, _, _, _)

\* del_ptr: where the element's text is cut, in front of the white space
\* that precedes the delimiter
DelPtr(s, next_del) ==
    CHOOSE d \in 1..next_del :
        /\ ~isspace(Ch(s, d - 1))
        /\ \A j \in (d + 1)..next_del : isspace(Ch(s, j - 1))

parse_array_element(m, strval, array_type, res_arr, prev_index) ==
    Let([basic_type \in {get_array_basic_type(array_type)} |->
    Let([index_state \in {get_index(Buf(m), strval)} |->
        IF basic_type = NullStr \/ index_state.status = PARSER_ERR
        THEN [status |-> PARSER_ERR, parse_end |-> 0, m |-> m]
        ELSE Let([next_del \in {index_state.parse_end} |->
             Let([index \in {IF index_state.status = PARSER_OK THEN index_state.res_int
                 ELSE prev_index + 1} |->
             Let([c \in {IF index_state.status = PARSER_OK
                 THEN find_same_level_symbol(Buf(m), strval, ":").res_str + 1
                 ELSE strval} |->
             Let([m1 \in {SetCh(m, DelPtr(Buf(m), next_del), NUL)} |->
             Let([element_res \in {parse_composite_impl(m1, SkipSpace(Buf(m1), c), basic_type,
                     At(res_arr, get_element_offset_with_index(array_type, index)))} |->
                 [status |-> IF element_res.status = PARSER_ERR THEN PARSER_ERR
                             ELSE PARSER_OK,
                  parse_end |-> next_del,
                  m |-> SetCh(element_res.m, next_del, Ch(Buf(m), next_del))]])])])])])])])

\* the copy of the name is released on the error path only
parse_struct_element(m, strval, struct_type, res_struct) ==
    Let([name_state \in {get_name(m, strval)} |->
        IF name_state.status # PARSER_OK
        THEN [status |-> PARSER_ERR, parse_end |-> 0, m |-> name_state.m]
        ELSE Let([name \in {CString(name_state.m, name_state.res_str)} |->
             Let([offset \in {get_field_offset(struct_type, name)} |->
             Let([field_type \in {get_field_type_name(struct_type, name)} |->
             Let([next_del \in {name_state.parse_end} |->
                 IF offset < 0 \/ field_type = NullStr
                 THEN [status |-> PARSER_ERR, parse_end |-> next_del,
                       m |-> guc_free(name_state.m, name_state.res_str)]
                 ELSE Let([c \in {find_same_level_symbol(Buf(m), strval, ":").res_str + 1} |->
                      Let([m1 \in {SetCh(name_state.m, DelPtr(Buf(m), next_del), NUL)} |->
                      Let([element_res \in {parse_composite_impl(m1, SkipSpace(Buf(m1), c), field_type,
                                               At(res_struct, offset))} |->
                      Let([m2 \in {SetCh(element_res.m, next_del, Ch(Buf(m), next_del))} |->
                          IF element_res.status = PARSER_ERR
                          THEN [status |-> PARSER_ERR, parse_end |-> next_del,
                                m |-> guc_free(m2, name_state.res_str)]
                          ELSE [status |-> PARSER_OK, parse_end |-> next_del,
                                m |-> m2]])])])])])])])])])

parse_prepared_array(m, start, array_type, res_arr) ==
    LET RECURSIVE loop(_, _, _)
        \* the while loop
        loop(m1, c, i) ==
            IF Ch(Buf(m1), c - 1) = "]"
            THEN [status |-> PARSER_OK, parse_end |-> c - 1, m |-> m1]
            ELSE Let([element_res \in {parse_array_element(m1, c, array_type, res_arr, i - 1)} |->
                     IF element_res.status = PARSER_ERR
                     THEN [status |-> PARSER_ERR, parse_end |-> 0, m |-> element_res.m]
                     ELSE loop(element_res.m, element_res.parse_end + 1, i + 1)])
    IN loop(m, start + 1, 0)

parse_static_array(m, strval, array_type, res_arr) ==
    Let([check_res \in {check_array_syntax(Buf(m), strval)} |->
        IF \/ get_static_array_size(array_type) < 0
           \/ check_res.status = PARSER_ERR
           \/ check_res.res_int > get_static_array_size(array_type)
        THEN [status |-> PARSER_ERR, parse_end |-> check_res.parse_end, m |-> m]
        ELSE parse_prepared_array(m, strval, array_type, res_arr)])

\* "replace old snapshot": the old buffer is released, the new one and the
\* length are stored in the variable array
ReplaceArray(m, res_arr, new_data, arr_len) ==
    Let([m1 \in {guc_free(m, Load(m, res_arr))} |->
    Let([m2 \in {Store(m1, res_arr, SizeofPtr, new_data)} |->
        Store(m2, At(res_arr, SizeofPtr), SizeofInt, arr_len)])])

\* parse_dynamic_array with arr_len = max_idx + 1, whatever the previous length
parse_dynamic_array_max_only(m, strval, array_type, res_arr) ==
    Let([last_arr_len \in {dynamic_array_size(m, res_arr)} |->
    Let([last_arr_mem_size \in {get_dynamic_array_mem_size_with_length(array_type, last_arr_len)} |->
    Let([check_res \in {check_array_syntax(Buf(m), strval)} |->
        IF last_arr_mem_size < 0 \/ check_res.status = PARSER_ERR
        THEN [status |-> PARSER_ERR, parse_end |-> 0, m |-> m]
        ELSE Let([arr_len \in {check_res.res_int + 1} |->
             Let([new_data_mem_size \in {get_dynamic_array_mem_size_with_length(array_type, arr_len)} |->
             Let([m1 \in {guc_malloc(m, new_data_mem_size)} |->
             Let([m2 \in {IF last_arr_mem_size # 0
                 THEN Memcpy(m1, Root(New(m1)), Root(Load(m, res_arr)), last_arr_mem_size)
                 ELSE m1} |->
             Let([m3 \in {Memset0(m2, At(Root(New(m1)), last_arr_mem_size),
                         new_data_mem_size - last_arr_mem_size)} |->
                 parse_prepared_array(ReplaceArray(m3, res_arr, New(m1), arr_len),
                                      strval, array_type, Root(New(m1)))])])])])])])])])

parse_dynamic_array(m, strval, array_type, res_arr) ==
    Let([last_arr_len \in {dynamic_array_size(m, res_arr)} |->
    Let([last_arr_mem_size \in {get_dynamic_array_mem_size_with_length(array_type, last_arr_len)} |->
    Let([check_res \in {check_array_syntax(Buf(m), strval)} |->
        IF last_arr_mem_size < 0 \/ check_res.status = PARSER_ERR
        THEN [status |-> PARSER_ERR, parse_end |-> 0, m |-> m]
        ELSE Let([arr_len \in {Max(check_res.res_int + 1, last_arr_len)} |->
             Let([new_data_mem_size \in {get_dynamic_array_mem_size_with_length(array_type, arr_len)} |->
             Let([m1 \in {guc_malloc(m, new_data_mem_size)} |->
             Let([m2 \in {IF last_arr_mem_size # 0
                 THEN Memcpy(m1, Root(New(m1)), Root(Load(m, res_arr)), last_arr_mem_size)
                 ELSE m1} |->
             Let([m3 \in {Memset0(m2, At(Root(New(m1)), last_arr_mem_size),
                         new_data_mem_size - last_arr_mem_size)} |->
                 parse_prepared_array(ReplaceArray(m3, res_arr, New(m1), arr_len),
                                      strval, array_type, Root(New(m1)))])])])])])])])])

RECURSIVE find_field(_, _, _)
find_field(m, st, name) ==
    IF Ch(Buf(m), st) = "}" THEN [status |-> PARSER_NOT_FOUND, res_str |-> 0, m |-> m]
    ELSE Let([name_state \in {get_name(m, st + 1)} |->
             IF name_state.status # PARSER_OK
             THEN [status |-> PARSER_ERR, res_str |-> 0, m |-> name_state.m]
             ELSE Let([m1 \in {guc_free(name_state.m, name_state.res_str)} |->
                      IF CString(name_state.m, name_state.res_str) = name
                      THEN [status |-> PARSER_OK, res_str |-> st + 1, m |-> m1]
                      ELSE find_field(m1, name_state.parse_end, name)])])

\* struct DynArrTmp dyn_array = {NULL, -1}, on the stack
DynArrTmp == Block("stack", <<NULL, 0, 0, 0, 0, 0, 0, 0, -1, 0, 0, 0, 0, 0, 0, 0>>)

\* the new buffer of parse_extended_dynamic_array, filled from the old one
ExtendedNewData(m, array_type, res_arr, last_arr_mem_size, arr_len) ==
    Let([new_data_mem_size \in {get_dynamic_array_mem_size_with_length(array_type, arr_len)} |->
    Let([m1 \in {guc_malloc(m, new_data_mem_size)} |->
        IF last_arr_mem_size # 0 /\ last_arr_mem_size < new_data_mem_size
        THEN Let([m2 \in {Memcpy(m1, Root(New(m1)), Root(Load(m, res_arr)), last_arr_mem_size)} |->
                 Memset0(m2, At(Root(New(m1)), last_arr_mem_size),
                         new_data_mem_size - last_arr_mem_size)])
        ELSE IF last_arr_mem_size # 0
        THEN Memcpy(m1, Root(New(m1)), Root(Load(m, res_arr)), new_data_mem_size)
        ELSE m1])])

parse_extended_dynamic_array(m, strval, array_type, res_arr) ==
    LET s == Buf(m)
        err(m1) == [status |-> PARSER_ERR, parse_end |-> 0, m |-> m1]
        RECURSIVE count(_, _)
        \* the for loop that counts the fields
        count(del, cnt_fields) ==
            IF Ch(s, del) \in {"}", NUL} THEN cnt_fields
            ELSE count(find_same_level_symbol(s, del + 1, ",").res_str, cnt_fields + 1)
        \* the field size: .arr_len is -1 when the text has none
        size(cnt_fields) ==
            Let([search_res \in {find_field(m, strval, S_size)} |->
                IF search_res.status = PARSER_OK
                THEN Let([m1 \in {[search_res.m EXCEPT !.blk = Append(@, DynArrTmp)]} |->
                     Let([element_res \in {parse_struct_element(m1, search_res.res_str, array_type,
                                              Root(New(m1)))} |->
                         [status |-> element_res.status, m |-> element_res.m,
                          arr_len |-> Load(element_res.m, Ptr(New(m1), SizeofPtr))]])])
                ELSE [status |-> IF search_res.status = PARSER_NOT_FOUND /\ cnt_fields <= 1
                                 THEN PARSER_OK ELSE PARSER_ERR,
                      m |-> search_res.m, arr_len |-> -1]])
    IN
    Let([last_arr_mem_size \in {get_dynamic_array_mem_size_with_length(array_type, dynamic_array_size(m, res_arr))} |->
    Let([parse_end \in {check_braces(s, strval, "{", "}")} |->
        IF last_arr_mem_size < 0 \/ parse_end = 0 \/ is_empty_array(s, strval, parse_end)
        THEN err(m)
        ELSE Let([cnt_fields \in {count(strval, 0)} |->
             Let([size_res \in {IF cnt_fields > 2 THEN err(m) ELSE size(cnt_fields)} |->
                 IF size_res.status = PARSER_ERR THEN err(size_res.m)
                 ELSE Let([search_res \in {find_field(size_res.m, strval, S_data)} |->
                      IF search_res.status = PARSER_NOT_FOUND
                      THEN \* no data: the array is resized
                           IF cnt_fields > 1 \/ size_res.arr_len < 0 THEN err(search_res.m)
                           ELSE Let([m1 \in {ExtendedNewData(search_res.m, array_type, res_arr,
                                        last_arr_mem_size, size_res.arr_len)} |->
                                    [status |-> PARSER_OK, parse_end |-> parse_end,
                                     m |-> ReplaceArray(m1, res_arr, New(m1),
                                                        size_res.arr_len)]])
                      ELSE IF search_res.status = PARSER_ERR THEN err(search_res.m)
                      ELSE Let([c \in {SkipSpace(Buf(search_res.m),
                                         find_same_level_symbol(Buf(search_res.m),
                                             search_res.res_str, ":").res_str + 1)} |->
                           Let([check_res \in {check_array_syntax(Buf(search_res.m), c)} |->
                           Let([arr_len \in {IF size_res.arr_len = -1
                               THEN Max(check_res.res_int + 1,
                                        dynamic_array_size(m, res_arr))
                               ELSE size_res.arr_len} |->
                               IF check_res.status = PARSER_ERR
                                  \/ arr_len <= check_res.res_int
                               THEN err(search_res.m)
                               ELSE Let([m1 \in {ExtendedNewData(search_res.m, array_type, res_arr,
                                            last_arr_mem_size, arr_len)} |->
                                        parse_prepared_array(
                                            ReplaceArray(m1, res_arr, New(m1), arr_len),
                                            c, array_type, Root(New(m1)))])])])])])])])])])

parse_structure(m, strval, struct_type, res_struct) ==
    LET RECURSIVE loop(_, _)
        \* the while loop over the fields
        loop(m1, c) ==
            IF Ch(Buf(m1), c - 1) = "}"
            THEN [status |-> PARSER_OK, parse_end |-> c - 1, m |-> m1]
            ELSE Let([element_res \in {parse_struct_element(m1, c, struct_type, res_struct)} |->
                     IF element_res.status = PARSER_ERR
                     THEN [status |-> PARSER_ERR, parse_end |-> 0, m |-> element_res.m]
                     ELSE loop(element_res.m, element_res.parse_end + 1)])
    IN IF is_atomic_type(struct_type)
       THEN parse_atomic_type(m, strval, struct_type, res_struct)
       ELSE IF check_braces(Buf(m), strval, "{", "}") = 0
       THEN [status |-> PARSER_ERR, parse_end |-> 0, m |-> m]
       ELSE loop(m, strval + 1)

parse_composite_impl(m, value, type, result_ptr) ==
    IF is_static_array_type(type) THEN parse_static_array(m, value, type, result_ptr)
    ELSE IF is_dynamic_array_type(type)
    THEN IF Ch(Buf(m), value) = "{"
         THEN parse_extended_dynamic_array(m, value, type, result_ptr)
         ELSE parse_dynamic_array(m, value, type, result_ptr)
    ELSE parse_structure(m, value, type, result_ptr)

\* value[-1] of an empty text is not modelled: no text here is empty
is_assignment_list(value) == value # <<>> /\ value[Len(value)] = ";"

RECURSIVE parse_composite(_, _, _, _)

\* parse_placeholder_patch_list with every patch applied to a fresh copy of
\* prev_val instead of the accumulated value
parse_placeholder_patch_list_from_prev(m, value, type, prev_val) ==
    LET RECURSIVE loop(_, _, _, _)
        loop(m1, strval, cur_patch, last_value) ==
            Let([s \in {m1.blk[strval].data} |->
                IF Ch(s, cur_patch) = NUL
                THEN [check |-> TRUE, result |-> last_value, m |-> guc_free(m1, strval)]
                ELSE Let([search_res \in {find_same_level_symbol(s, cur_patch, ";")} |->
                     Let([next_del \in {search_res.res_str} |->
                     IF search_res.status # PARSER_OK
                        /\ is_assignment_list(SubSeq(s, cur_patch, next_del - 1))
                     THEN [check |-> FALSE, result |-> last_value,
                           m |-> [m1 EXCEPT !.stack = TRUE]]
                     ELSE
                     Let([next \in {parse_composite([m1 EXCEPT !.blk[strval].data[next_del] = NUL],
                                         SubSeq(s, cur_patch, next_del - 1), type,
                                         prev_val)} |->
                         IF ~next.check
                         THEN [check |-> FALSE, result |-> last_value,
                               m |-> guc_free(next.m, strval)]
                         ELSE loop(guc_free(next.m, last_value), strval, next_del + 1,
                                   next.result)])])])])
    IN Let([m1 \in {guc_strdup(m, value)} |->
       Let([last_value \in {struct_dup(m1, prev_val, type)} |->
           loop(last_value.m, New(m1), 1, last_value.p)])])

\* parse_placeholder_patch_list that frees the accumulated value and leaves
\* NULL in *result when a patch fails
parse_placeholder_patch_list_drop(m, value, type, prev_val) ==
    LET RECURSIVE loop(_, _, _, _)
        loop(m1, strval, cur_patch, last_value) ==
            Let([s \in {m1.blk[strval].data} |->
                IF Ch(s, cur_patch) = NUL
                THEN [check |-> TRUE, result |-> last_value, m |-> guc_free(m1, strval)]
                ELSE Let([search_res \in {find_same_level_symbol(s, cur_patch, ";")} |->
                     Let([next_del \in {search_res.res_str} |->
                     IF search_res.status # PARSER_OK
                        /\ is_assignment_list(SubSeq(s, cur_patch, next_del - 1))
                     THEN [check |-> FALSE, result |-> last_value,
                           m |-> [m1 EXCEPT !.stack = TRUE]]
                     ELSE
                     Let([next \in {parse_composite([m1 EXCEPT !.blk[strval].data[next_del] = NUL],
                                         SubSeq(s, cur_patch, next_del - 1), type,
                                         last_value)} |->
                         IF ~next.check
                         THEN [check |-> FALSE, result |-> NULL,
                               m |-> guc_free(guc_free(next.m, last_value), strval)]
                         ELSE loop(guc_free(next.m, last_value), strval, next_del + 1,
                                   next.result)])])])])
    IN Let([m1 \in {guc_strdup(m, value)} |->
       Let([last_value \in {struct_dup(m1, prev_val, type)} |->
           loop(last_value.m, New(m1), 1, last_value.p)])])

\* returns in .check what the function returns and in .result what it leaves
\* in *result.  When no ';' is found on the level of cur_patch and the rest
\* of the text still ends in ';', the call of parse_composite is the call that
\* is running, on the same text: the recursion does not end (.m.stack).
parse_placeholder_patch_list(m, value, type, prev_val) ==
    LET RECURSIVE loop(_, _, _, _)
        \* the while loop over the patches
        loop(m1, strval, cur_patch, last_value) ==
            Let([s \in {m1.blk[strval].data} |->
                IF Ch(s, cur_patch) = NUL
                THEN [check |-> TRUE, result |-> last_value, m |-> guc_free(m1, strval)]
                ELSE Let([search_res \in {find_same_level_symbol(s, cur_patch, ";")} |->
                     Let([next_del \in {search_res.res_str} |->
                     IF search_res.status # PARSER_OK
                        /\ is_assignment_list(SubSeq(s, cur_patch, next_del - 1))
                     THEN [check |-> FALSE, result |-> last_value,
                           m |-> [m1 EXCEPT !.stack = TRUE]]
                     ELSE
                     Let([next \in {parse_composite([m1 EXCEPT !.blk[strval].data[next_del] = NUL],
                                         SubSeq(s, cur_patch, next_del - 1), type,
                                         last_value)} |->
                         IF ~next.check
                         THEN [check |-> FALSE, result |-> last_value,
                               m |-> guc_free(next.m, strval)]
                         ELSE loop(guc_free(next.m, last_value), strval, next_del + 1,
                                   next.result)])])])])
    IN Let([m1 \in {guc_strdup(m, value)} |->
       Let([last_value \in {struct_dup(m1, prev_val, type)} |->
           loop(last_value.m, New(m1), 1, last_value.p)])])

\* scheme is the scratch copy of the text, val the working root
parse_composite(m, value, type, prev_val) ==
    IF is_assignment_list(value) THEN parse_placeholder_patch_list(m, value, type, prev_val)
    ELSE Let([m1 \in {guc_strdup(m, value)} |->
         Let([m2 \in {guc_malloc(m1, get_type_size(type))} |->
         Let([m3 \in {IF prev_val # NULL
             THEN struct_dup_impl(m2, Root(New(m2)), Root(prev_val), type)
             ELSE Memset0(m2, Root(New(m2)), get_type_size(type))} |->
         Let([parser_result \in {parse_composite_impl([m3 EXCEPT !.scheme = New(m1)], 1, type, Root(New(m2)))} |->
         Let([m4 \in {[parser_result.m EXCEPT !.scheme = m.scheme]} |->
             IF parser_result.status = PARSER_ERR
             THEN [check |-> FALSE, result |-> NULL,
                   m |-> guc_free(guc_free(m4, New(m2)), New(m1))]
             ELSE [check |-> TRUE, result |-> New(m2), m |-> guc_free(m4, New(m1))]])])])])])

(***************************************************************************)
(* Serialize.  The functions return the text they build; NullStr is the    *)
(* NULL they return on failure.  The buffers the text is built in are not  *)
(* blocks of the model.                                                    *)
(***************************************************************************)
\* the process died while building the text
SIGSEGV == <<"SIGSEGV">>

\* sprintf(buf, "%d", n)
sprintf_d(n) ==
    LET RECURSIVE digits(_)
        digits(k) == IF k < 10 THEN <<Digits[k + 1]>>
                     ELSE digits(k \div 10) \o <<Digits[(k % 10) + 1]>>
    IN IF n < 0 THEN <<"-">> \o digits(0 - n) ELSE digits(n)

\* escape_single_quotes_ascii: every ' and every \ is doubled
RECURSIVE escape_single_quotes_ascii(_)
escape_single_quotes_ascii(src) ==
    IF src = <<>> THEN <<>>
    ELSE (IF src[1] \in {"'", "\\"} THEN <<src[1], src[1]>> ELSE <<src[1]>>)
         \o escape_single_quotes_ascii(Tail(src))

atomic_to_str(m, structp, type, serialize) ==
    IF type \notin {S_bool, S_int, S_real, S_string} THEN NullStr
    ELSE Let([buf \in {IF type = S_bool
                      THEN IF Load(m, structp) # 0 THEN <<"t", "r", "u", "e">>
                           ELSE <<"f", "a", "l", "s", "e">>
                      ELSE IF type = S_int THEN sprintf_d(Load(m, structp))
                      ELSE IF type = S_real
                      THEN sprintf_d(Load(m, structp)) \o <<".", "0", "0", "0", "0", "0", "0">>
                      ELSE IF Load(m, structp) = NULL THEN S_nil
                      ELSE IF serialize
                      THEN escape_single_quotes_ascii(CString(m, Load(m, structp)))
                      ELSE CString(m, Load(m, structp))} |->
             IF serialize \/ (type = S_string /\ buf # S_nil)
             THEN <<"'">> \o buf \o <<"'">>
             ELSE buf])

\* the concatenation both array functions and structure_to_str end with:
\* open, the parts separated by ", ", close.  The last part is parts[n - 1]
\* even when there is no part: the read of parts[-1] kills the process or
\* yields some text, as the heap says.
Glue(m, open, parts, close) ==
    LET RECURSIVE join(_)
        join(i) == IF i = Len(parts) THEN parts[i]
                   ELSE parts[i] \o <<",", " ">> \o join(i + 1)
    IN IF \E i \in 1..Len(parts) : parts[i] \in {NullStr, SIGSEGV}
       THEN parts[CHOOSE i \in 1..Len(parts) :
                      /\ parts[i] \in {NullStr, SIGSEGV}
                      /\ \A j \in 1..(i - 1) : parts[j] \notin {NullStr, SIGSEGV}]
       ELSE IF parts = <<>>
       THEN IF m.ub = "crash" THEN SIGSEGV
            ELSE open \o (IF m.ub = "garbage" THEN <<"?">> ELSE <<>>) \o close
       ELSE open \o join(1) \o close

RECURSIVE struct_to_str(_, _, _, _)

static_array_to_str(m, structp, type, serialize) ==
    IF get_array_basic_type(type) = NullStr \/ get_static_array_size(type) < 0 THEN NullStr
    ELSE Glue(m, <<"[">>,
              [i \in 1..get_static_array_size(type) |->
                  IF get_element_offset_with_index(type, i - 1) < 0 THEN NullStr
                  ELSE struct_to_str(m, At(structp, get_element_offset_with_index(type, i - 1)),
                                     get_array_basic_type(type), serialize)],
              <<"]">>)

dynamic_array_to_str(m, structp, type, serialize) ==
    IF get_array_basic_type(type) = NullStr THEN NullStr
    ELSE Let([array_size \in {dynamic_array_size(m, structp)} |->
         Let([is_expand \in {array_size >= expand_array_view_thd} |->
             Glue(m,
                  IF is_expand
                  THEN <<"{", "s", "i", "z", "e", ":", " ">> \o sprintf_d(array_size)
                       \o <<",", " ", "d", "a", "t", "a", ":", " ", "[">>
                  ELSE <<"[">>,
                  [i \in 1..array_size |->
                      IF get_element_offset_with_index(type, i - 1) < 0 THEN NullStr
                      ELSE struct_to_str(m, At(Root(Load(m, structp)),
                                               get_element_offset_with_index(type, i - 1)),
                                         get_array_basic_type(type), serialize)],
                  IF is_expand THEN <<"]", "}">> ELSE <<"]">>)])])

structure_to_str(m, structp, type, serialize) ==
    IF is_atomic_type(type) THEN atomic_to_str(m, structp, type, serialize)
    ELSE IF ~HasDefinition(type) THEN NullStr
    ELSE Let([struct_type \in {get_type_definition(type)} |->
             Glue(m, <<"{">>,
                  [i \in 1..struct_type.cnt_fields |->
                      Let([part \in {IF get_field_offset(struct_type.type,
                                                        struct_type.fields[i].name) < 0
                                    THEN NullStr
                                    ELSE struct_to_str(m,
                                             At(structp, get_field_offset(struct_type.type,
                                                             struct_type.fields[i].name)),
                                             struct_type.fields[i].type, serialize)} |->
                          IF part \in {NullStr, SIGSEGV} THEN part
                          ELSE struct_type.fields[i].name \o <<":", " ">> \o part])],
                  <<"}">>)])

struct_to_str(m, structp, type, serialize) ==
    IF is_static_array_type(type) THEN static_array_to_str(m, structp, type, serialize)
    ELSE IF is_dynamic_array_type(type) THEN dynamic_array_to_str(m, structp, type, serialize)
    ELSE structure_to_str(m, structp, type, serialize)

(***************************************************************************)
(* The host: the types it registers and the values it hands to the engine  *)
(***************************************************************************)
S_n == <<"n">>
S_c == <<"c">>
F_s == <<"s">>
F_p == <<"p">>
F_a == <<"a">>
F_b == <<"b">>
F_v == <<"v">>

Arr(type, n) == type \o <<"[">> \o <<Digits[n + 1]>> \o <<"]">>
VarArr(type) == type \o <<"[", "]">>

\* "string s; int p" and "int[2] a; int b; n[] v"
Sig_n == <<"s", "t", "r", "i", "n", "g", " ", "s", ";", " ", "i", "n", "t", " ", "p">>
Sig_c == <<"i", "n", "t", "[", "2", "]", " ", "a", ";", " ", "i", "n", "t", " ", "b", ";",
           " ", "n", "[", "]", " ", "v">>

HostTypes == <<[name |-> S_n, signature |-> Sig_n], [name |-> S_c, signature |-> Sig_c]>>

MaxLen == 2             \* the longest variable array the host builds

\* Values as the host writes them down: an integer for int and bool, a
\* string or NullStr for string, a sequence of elements for an array, a
\* sequence of field values in declaration order for a record.
StringValues == {NullStr, <<>>, <<"a">>, S_nil, <<"a", "'", "b">>}
IntValues == {0, 7, -3}
NodeValues == {<<s, p>> : s \in {NullStr, <<"a">>, <<"'">>}, p \in {0, 7}}

SeqsUpTo(S, n) == UNION {[1..k -> S] : k \in 0..n}

HostValues(type) ==
    IF type = S_n THEN {<<s, p>> : s \in StringValues, p \in IntValues}
    ELSE IF type = S_c
         THEN {<<a, b, v>> : a \in {<<1, 2>>}, b \in {0, 5},
                             v \in SeqsUpTo({<<NullStr, 0>>, <<<<"a">>, 7>>}, MaxLen)}
    ELSE IF type = VarArr(S_string) THEN SeqsUpTo({NullStr, <<"a">>, S_nil}, MaxLen)
    ELSE IF type = VarArr(S_int) THEN SeqsUpTo({0, 7}, MaxLen)
    ELSE IF type = Arr(S_int, 2) THEN {<<0, 0>>, <<7, -3>>}
    ELSE IF type = Arr(S_string, 2) THEN {<<NullStr, <<"a">>>>, <<<<"a", "'", "b">>, S_nil>>}
    ELSE IF type = Arr(S_n, 2) THEN {<<x, y>> : x \in {<<NullStr, 0>>}, y \in NodeValues}
    ELSE IF type = Arr(S_bool, 2) THEN {<<1, 0>>}
    ELSE {}

RootTypes == {S_n, S_c, VarArr(S_string), VarArr(S_int), Arr(S_int, 2), Arr(S_string, 2),
              Arr(S_n, 2), Arr(S_bool, 2)}

RECURSIVE HostStore(_, _, _, _)

RECURSIVE HostStoreElements(_, _, _, _, _)
HostStoreElements(m, p, type, av, i) ==
    IF i >= Len(av) THEN m
    ELSE Let([m1 \in {HostStore(m, At(p, get_element_offset_with_index(type, i)),
                       get_array_basic_type(type), av[i + 1])} |->
             HostStoreElements(m1, p, type, av, i + 1)])

RECURSIVE HostStoreFields(_, _, _, _, _)
HostStoreFields(m, p, type, av, i) ==
    IF i > Len(av) THEN m
    ELSE Let([field \in {get_type_definition(type).fields[i]} |->
         Let([m1 \in {HostStore(m, At(p, get_field_offset(type, field.name)), field.type, av[i])} |->
             HostStoreFields(m1, p, type, av, i + 1)])])

\* a zero-filled block
HostAlloc(m, size) ==
    Let([m1 \in {guc_malloc(m, size)} |-> Memset0(m1, Root(New(m1)), size)])

HostStore(m, p, type, av) ==
    IF is_static_array_type(type) THEN HostStoreElements(m, p, type, av, 0)
    ELSE IF is_dynamic_array_type(type)
    THEN IF Len(av) = 0 THEN m
         ELSE Let([m1 \in {HostAlloc(m, get_dynamic_array_mem_size_with_length(type, Len(av)))} |->
              Let([m2 \in {HostStoreElements(m1, Root(New(m1)), type, av, 0)} |->
              Let([m3 \in {Store(m2, p, SizeofPtr, New(m1))} |->
                  Store(m3, At(p, SizeofPtr), SizeofInt, Len(av))])])])
    ELSE IF type = S_string
    THEN IF av = NullStr THEN m
         ELSE Let([m1 \in {guc_strdup(m, av)} |-> Store(m1, p, SizeofPtr, New(m1))])
    ELSE IF is_atomic_type(type) THEN Store(m, p, get_type_size(type), av)
    ELSE HostStoreFields(m, p, type, av, 1)

(***************************************************************************)
(* What a value owns: its strings and its variable-array buffers           *)
(***************************************************************************)
RECURSIVE OwnedBlocks(_, _, _)
OwnedBlocks(m, p, type) ==
    IF is_static_array_type(type)
    THEN UNION {OwnedBlocks(m, At(p, get_element_offset_with_index(type, i)),
                            get_array_basic_type(type)) :
                i \in 0..(get_static_array_size(type) - 1)}
    ELSE IF is_dynamic_array_type(type)
    THEN IF Load(m, p) = NULL THEN {}
         ELSE {Load(m, p)} \cup
              UNION {OwnedBlocks(m, At(Root(Load(m, p)), get_element_offset_with_index(type, i)),
                                 get_array_basic_type(type)) :
                     i \in 0..(dynamic_array_size(m, p) - 1)}
    ELSE IF type = S_string THEN (IF Load(m, p) = NULL THEN {} ELSE {Load(m, p)})
    ELSE IF is_atomic_type(type) \/ ~HasDefinition(type) THEN {}
    ELSE UNION {OwnedBlocks(m, At(p, get_field_offset(type, get_type_definition(type).fields[i].name)),
                            get_type_definition(type).fields[i].type) :
                i \in 1..get_type_definition(type).cnt_fields}

\* the root block of a value and everything it owns
ValueBlocks(m, root, type) ==
    IF root = NULL THEN {} ELSE {root} \cup OwnedBlocks(m, Root(root), type)

(***************************************************************************)
(* Start-up: the registry holds the built-in types, the host registers its *)
(* types and then boots one value.                                         *)
(***************************************************************************)
Last(q) == IF Len(q) = 0 THEN "" ELSE q[Len(q)]
Count(q, x) == Cardinality({i \in 1..Len(q) : q[i] = x})

Init ==
    /\ guc_types_hashtab = AtomicTypes
    /\ expand_array_view_thd = 0
    /\ mem = EmptyHeap
    /\ T = NullStr
    /\ prev = NULL
    /\ text = NullStr
    /\ result = NULL
    /\ ret = 0
    /\ pc = <<>>
    /\ mem0 = EmptyHeap
    /\ field_path = NullStr
    /\ leaf_text = NullStr
    /\ cur_ptr = [b |-> NULL, o |-> 0]

\* _PG_init: the host registers its next type
PG_init ==
    /\ Count(pc, "define") = Len(pc)
    /\ Len(pc) < Len(HostTypes)
    /\ guc_types_hashtab' = DefineCustomStructType(HostTypes[Len(pc) + 1].name,
                                                   HostTypes[Len(pc) + 1].signature)
    /\ pc' = Append(pc, "define")
    /\ UNCHANGED <<expand_array_view_thd, mem, T, prev, text, result, ret, mem0>>
    /\ UNCHANGED <<field_path, leaf_text, cur_ptr>>

\* the thresholds the host configures
ExpandThresholds == {0, 2}

\* the host's configuration and its boot value of a variable of type t
HostBoot ==
    /\ Len(pc) = Len(HostTypes)
    /\ Last(pc) = "define"
    /\ \E t \in RootTypes : \E av \in HostValues(t) :
        \E m1 \in {HostAlloc(mem, get_type_size(t))} :
            /\ T' = t
            /\ prev' = New(m1)
            /\ mem' = HostStore(m1, Root(New(m1)), t, av)
    /\ expand_array_view_thd' \in ExpandThresholds
    /\ mem0' = mem
    /\ pc' = Append(pc, "boot")
    /\ UNCHANGED <<guc_types_hashtab, text, result, ret>>
    /\ UNCHANGED <<field_path, leaf_text, cur_ptr>>

Booted == Count(pc, "boot") = 1

(***************************************************************************)
(* Paths                                                                   *)
(***************************************************************************)
\* strtok(path, "->[]"): all the tokens of the path, in order
tokenize_field_path(path) == strtok(path, {"-", ">", "[", "]"})

\* prefix and suffix are the texts built so far; the buffers they are built
\* in are sized to fit and freed before the function returns
convert_path_composite(path, value) ==
    LET RECURSIVE loop(_, _, _)
        \* the while loop over the tokens behind the name of the option
        loop(i, prefix, suffix) ==
            IF i > Len(tokenize_field_path(path)) THEN prefix \o value \o suffix
            ELSE Let([cur_field \in {tokenize_field_path(path)[i]} |->
                     IF isdigit(cur_field[1])
                     THEN loop(i + 1, prefix \o <<"[">> \o cur_field \o <<":", " ">>,
                               <<"]">> \o suffix)
                     ELSE loop(i + 1, prefix \o <<"{">> \o cur_field \o <<":", " ">>,
                               <<"}">> \o suffix)])
    IN loop(2, <<>>, <<>>)

\* cur_ptr is a pointer record; NULL + offset is the address offset, in no
\* block.  type_blk is the block that holds the current type name.
NullPtr == Ptr(NULL, 0)

\* the type the path leads to, NullStr when it leads nowhere
get_nest_field_type(struct_type, path) ==
    LET RECURSIVE loop(_, _)
        \* the while loop over the tokens behind the name of the structure
        loop(i, type) ==
            IF i > Len(tokenize_field_path(path)) \/ type = NullStr THEN type
            ELSE loop(i + 1, get_field_type_name(type, tokenize_field_path(path)[i]))
    IN IF struct_type = NullStr \/ path = NullStr THEN NullStr
       ELSE loop(2, struct_type)

get_nest_field_ptr(m, structure, struct_type, path) ==
    LET RECURSIVE loop(_, _, _, _, _)
        \* the while loop over the tokens behind the name of the structure
        loop(m1, i, type, type_blk, ptr) ==
            IF i > Len(tokenize_field_path(path)) \/ type = NullStr
            THEN [m |-> guc_free(m1, type_blk), p |-> ptr]
            ELSE Let([cur_field \in {tokenize_field_path(path)[i]} |->
                 Let([base \in {IF is_dynamic_array_type(type) /\ cur_field # S_data
                                  /\ cur_field # S_size
                               THEN Root(Load(m1, ptr)) ELSE ptr} |->
                 Let([local_offset \in {get_field_offset(type, cur_field)} |->
                     IF local_offset < 0
                     THEN [m |-> guc_free(m1, type_blk), p |-> NullPtr]
                     ELSE Let([next_type \in {get_field_type_name(type, cur_field)} |->
                          Let([m2 \in {IF next_type = NullStr THEN m1
                                       ELSE guc_strdup(m1, next_type)} |->
                              loop(guc_free(m2, type_blk), i + 1, next_type,
                                   IF next_type = NullStr THEN NULL ELSE New(m2),
                                   At(base, local_offset))])])])])])
    IN IF structure = NULL \/ path = NullStr \/ struct_type = NullStr
       THEN [m |-> m, p |-> NullPtr]
       ELSE Let([m1 \in {guc_strdup(m, path)} |->
            Let([m2 \in {guc_strdup(m1, struct_type)} |->
            Let([r \in {loop(m2, 2, struct_type, New(m2), Root(structure))} |->
                [m |-> guc_free(r.m, New(m1)), p |-> r.p]])])])

(***************************************************************************)
(* The walker's operations as the host calls them                          *)
(***************************************************************************)
Dup ==
    /\ Last(pc) = "boot"
    /\ \E r \in {struct_dup(mem, prev, T)} :
        /\ mem' = r.m
        /\ result' = r.p
    /\ mem0' = mem
    /\ pc' = Append(pc, "dup")
    /\ UNCHANGED <<guc_types_hashtab, expand_array_view_thd, T, prev, text, ret>>
    /\ UNCHANGED <<field_path, leaf_text, cur_ptr>>

\* struct_cmp of the value made by the last operation with the host's value
Cmp ==
    /\ Last(pc) \in {"dup", "parse", "patch"}
    /\ result # NULL
    /\ ret' = struct_cmp(mem, Root(result), Root(prev), T)
    /\ mem0' = mem
    /\ pc' = Append(pc, "cmp")
    /\ UNCHANGED <<guc_types_hashtab, expand_array_view_thd, mem, T, prev, text, result>>
    /\ UNCHANGED <<field_path, leaf_text, cur_ptr>>

\* free_struct of the host's value, or of its duplicate
Free ==
    /\ \E op \in {"free_prev", "free_result"} :
        /\ Last(pc) = (IF op = "free_prev" THEN "boot" ELSE "dup")
        /\ mem' = free_struct(mem, IF op = "free_prev" THEN prev ELSE result, T)
        /\ pc' = Append(pc, op)
    /\ mem0' = mem
    /\ UNCHANGED <<guc_types_hashtab, expand_array_view_thd, T, prev, text, result, ret>>
    /\ UNCHANGED <<field_path, leaf_text, cur_ptr>>

\* the paths the host resolves: x[0], x[1], x[2], x[5], x->size, c->a[2],
\* c->b, c->v[0]->p, c->v[1]->p, c->zz, n->p, n->zz, n->p->q, x[zz]
IndexPaths == {<<"x", "[", d, "]">> : d \in {"0", "1", "2", "5"}}
ResolvePaths(type) ==
    IF type \in {Arr(S_int, 2), Arr(S_n, 2)} THEN IndexPaths \cup {<<"x", "[", "z", "z", "]">>}
    ELSE IF type \in {VarArr(S_int), VarArr(S_string)}
    THEN IndexPaths \cup {<<"x", "-", ">", "s", "i", "z", "e">>}
    ELSE IF type = S_c
    THEN {<<"c", "-", ">", "a", "[", "2", "]">>, <<"c", "-", ">", "b">>,
          <<"c", "-", ">", "v", "[", "0", "]", "-", ">", "p">>,
          <<"c", "-", ">", "v", "[", "1", "]", "-", ">", "p">>,
          <<"c", "-", ">", "z", "z">>}
    ELSE IF type = S_n
    THEN {<<"n", "-", ">", "p">>, <<"n", "-", ">", "z", "z">>,
          <<"n", "-", ">", "p", "-", ">", "q">>}
    ELSE {}

\* get_nest_field_type and get_nest_field_ptr of a path into the host's value
Resolve ==
    /\ Last(pc) = "boot"
    /\ \E path \in ResolvePaths(T) :
       \E r \in {get_nest_field_ptr(mem, prev, T, path)} :
        /\ field_path' = path
        /\ text' = get_nest_field_type(T, path)
        /\ cur_ptr' = r.p
        /\ mem' = r.m
    /\ mem0' = mem
    /\ pc' = Append(pc, "resolve")
    /\ UNCHANGED <<guc_types_hashtab, expand_array_view_thd, T, prev, result, ret, leaf_text>>

NextWalk == PG_init \/ HostBoot \/ Dup \/ Cmp \/ Free \/ Resolve

SpecWalk == Init /\ [][NextWalk]_vars

(***************************************************************************)
(* Texts: the host serializes its value, or writes a literal, and parses   *)
(* the text                                                                *)
(***************************************************************************)
\* [2: 5], [5, 6, 7], [3: 5], [1: 5], [2: zz], [0: zz], [1: 2147483647]
ArrayLiterals ==
    {<<"[", "2", ":", " ", "5", "]">>,
     <<"[", "1", ":", " ", "2", "1", "4", "7", "4", "8", "3", "6", "4", "7", "]">>,
     <<"[", "5", ",", " ", "6", ",", " ", "7", "]">>,
     <<"[", "3", ":", " ", "5", "]">>,
     <<"[", "1", ":", " ", "5", "]">>,
     <<"[", "2", ":", " ", "z", "z", "]">>,
     <<"[", "0", ":", " ", "z", "z", "]">>}

\* {a: [2: 5]}, {b: 9}, {v: [1: {p: 6}]}, {v: [0: {s: 'x'}], b: zz}, {b: zz}
ClusterLiterals ==
    {<<"{", "a", ":", " ", "[", "2", ":", " ", "5", "]", "}">>,
     <<"{", "b", ":", " ", "9", "}">>,
     <<"{", "v", ":", " ", "[", "1", ":", " ", "{", "p", ":", " ", "6", "}", "]", "}">>,
     <<"{", "v", ":", " ", "[", "0", ":", " ", "{", "s", ":", " ", "'", "x", "'", "}", "]",
       ",", " ", "b", ":", " ", "z", "z", "}">>,
     <<"{", "b", ":", " ", "z", "z", "}">>}

\* {p: 5}, {s: 'x', p: zz}, {p: zz}, and the patch lists {p: 5};{p: zz}; and
\* {p: 5};{s: 'x'}; and {p: 5};{p: 6}; and {p: zz};{p: 5}; and
\* {s: 'x'};{p: 5};{q: 1}; and {p: 1;
NodeLiterals ==
    {<<"{", "p", ":", " ", "5", "}">>,
     <<"{", "s", ":", " ", "'", "x", "'", ",", " ", "p", ":", " ", "z", "z", "}">>,
     <<"{", "p", ":", " ", "z", "z", "}">>,
     <<"{", "p", ":", " ", "5", "}", ";", "{", "p", ":", " ", "z", "z", "}", ";">>,
     <<"{", "p", ":", " ", "5", "}", ";", "{", "s", ":", " ", "'", "x", "'", "}", ";">>,
     <<"{", "p", ":", " ", "5", "}", ";", "{", "p", ":", " ", "6", "}", ";">>,
     <<"{", "p", ":", " ", "1", ";">>,
     <<"{", "p", ":", " ", "z", "z", "}", ";", "{", "p", ":", " ", "5", "}", ";">>,
     <<"{", "s", ":", " ", "'", "x", "'", "}", ";", "{", "p", ":", " ", "5", "}", ";",
       "{", "q", ":", " ", "1", "}", ";">>}

\* [1: 'x'], [zz: 1]
StringsLiterals ==
    {<<"[", "1", ":", " ", "'", "x", "'", "]">>, <<"[", "z", "z", ":", " ", "1", "]">>}

\* [0: 9], [0: 5, 6], [5, 1: 6], [1: 5, 0: 6], [5 , 6]
IndexLiterals ==
    {<<"[", "0", ":", " ", "9", "]">>,
     <<"[", "5", " ", ",", " ", "6", "]">>,
     <<"[", "0", ":", " ", "5", ",", " ", "6", "]">>,
     <<"[", "5", ",", " ", "1", ":", " ", "6", "]">>,
     <<"[", "1", ":", " ", "5", ",", " ", "0", ":", " ", "6", "]">>}

\* {size: 0}, {size: 1}, {size: 3}
SizeLiterals ==
    {<<"{", "s", "i", "z", "e", ":", " ", d, "}">> : d \in {"0", "1", "3"}}

\* [] and [ ]
EmptyLiterals == {<<"[", "]">>, <<"[", " ", "]">>}

\* the paths and value texts the host converts: n->p, n.p, c->v[0]->p,
\* c.v[0].p, c->a[1], cluster.nodes[0].port, x[1], x[0]
Placeholders(type) ==
    IF type = S_n
    THEN {<<<<"n", "-", ">", "p">>, <<"5">>>>, <<<<"n", ".", "p">>, <<"5">>>>}
    ELSE IF type = S_c
    THEN {<<<<"c", "-", ">", "v", "[", "0", "]", "-", ">", "p">>, <<"5">>>>,
          <<<<"c", ".", "v", "[", "0", "]", ".", "p">>, <<"5">>>>,
          <<<<"c", "-", ">", "a", "[", "1", "]">>, <<"5">>>>,
          <<<<"c", "l", "u", "s", "t", "e", "r", ".", "n", "o", "d", "e", "s", "[", "0", "]",
              ".", "p", "o", "r", "t">>, <<"6", "5", "4", "3">>>>}
    ELSE IF type = VarArr(S_int)
    THEN {<<<<"x", "[", "1", "]">>, <<"5">>>>, <<<<"x", "[", "0", "]">>, <<"z", "z">>>>}
    ELSE {}

Literals(type) ==
    IF type = Arr(S_int, 2) THEN ArrayLiterals \cup EmptyLiterals
    ELSE IF type = VarArr(S_int) THEN ArrayLiterals \cup IndexLiterals \cup SizeLiterals
    ELSE IF type \in {Arr(S_string, 2), Arr(S_n, 2)} THEN EmptyLiterals
    ELSE IF type = S_c THEN ClusterLiterals
    ELSE IF type = S_n THEN NodeLiterals
    ELSE IF type = VarArr(S_string) THEN StringsLiterals
    ELSE {}

REALTYPE_PRECISION == 17

RECURSIVE get_length_struct_str(_, _, _)

get_len_serialized_array(m, structp, type) ==
    LET RECURSIVE loop(_, _, _, _)
        \* the for loop over the elements
        loop(datap, array_size, i, total_size) ==
            IF i >= array_size THEN total_size
            ELSE loop(datap, array_size, i + 1,
                      total_size + get_length_struct_str(m,
                                       At(datap, get_element_offset_with_index(type, i)),
                                       get_array_basic_type(type)) + 2)
    IN IF is_dynamic_array_type(type)
       THEN loop(Root(Load(m, structp)), dynamic_array_size(m, structp), 0, 3)
       ELSE loop(structp, get_static_array_size(type), 0, 3)

get_len_serialized_struct(m, structp, type) ==
    LET RECURSIVE loop(_, _)
        \* the for loop over the fields
        loop(i, total_size) ==
            IF i > get_type_definition(type).cnt_fields THEN total_size
            ELSE Let([field \in {get_type_definition(type).fields[i]} |->
                     loop(i + 1,
                          total_size + get_length_struct_str(m,
                                           At(structp, get_field_offset(type, field.name)),
                                           field.type) + 2)])
    IN IF type = S_bool THEN 6
       ELSE IF type = S_int THEN (IF Load(m, structp) < 100 THEN 4 ELSE 11)
       ELSE IF type = S_real THEN 1 + 1 + 1 + REALTYPE_PRECISION + 5
       ELSE IF type = S_string
       THEN (IF Load(m, structp) # NULL THEN Len(CString(m, Load(m, structp))) ELSE 5)
       ELSE IF ~HasDefinition(type) THEN 0
       ELSE loop(1, 3)

get_length_struct_str(m, structp, type) ==
    IF is_static_array_type(type) \/ is_dynamic_array_type(type)
    THEN get_len_serialized_array(m, structp, type)
    ELSE get_len_serialized_struct(m, structp, type)

\* get_length_struct_str and struct_to_str of the host's value, for the wire
\* or for display
Serialize ==
    /\ Last(pc) = "boot"
    /\ \E serialize \in BOOLEAN : \E ub \in {"crash", "garbage", "empty"} :
        /\ text' = struct_to_str([mem EXCEPT !.ub = ub], Root(prev), T, serialize)
        /\ pc' = Append(pc, IF serialize THEN "wire" ELSE "pretty")
    /\ ret' = get_length_struct_str(mem, Root(prev), T)
    /\ mem0' = mem
    /\ UNCHANGED <<guc_types_hashtab, expand_array_view_thd, mem, T, prev, result>>
    /\ UNCHANGED <<field_path, leaf_text, cur_ptr>>

\* the host writes a literal of its own
Write ==
    /\ Last(pc) = "boot"
    /\ \E value \in Literals(T) : text' = value
    /\ mem0' = mem
    /\ pc' = Append(pc, "write")
    /\ UNCHANGED <<guc_types_hashtab, expand_array_view_thd, mem, T, prev, result, ret>>
    /\ UNCHANGED <<field_path, leaf_text, cur_ptr>>

\* normalize_struct_value of a composite placeholder: the host turns a path
\* and a value text into a literal
Convert ==
    /\ Last(pc) = "boot"
    /\ \E ph \in Placeholders(T) :
        /\ field_path' = ph[1]
        /\ leaf_text' = ph[2]
        /\ text' = convert_path_composite(ph[1], ph[2])
    /\ mem0' = mem
    /\ pc' = Append(pc, "convert")
    /\ UNCHANGED <<guc_types_hashtab, expand_array_view_thd, mem, T, prev, result, ret, cur_ptr>>

\* parse_composite of the text: wire text against no previous value, display
\* text against the value it shows, a literal against either.  adj is the
\* block that lies behind a block the call writes past the end of.
Parse ==
    /\ Last(pc) \in {"wire", "pretty", "write", "convert"}
    /\ text \notin {NullStr, SIGSEGV}
    /\ \E prev_val \in (IF Last(pc) = "wire" THEN {NULL}
                        ELSE IF Last(pc) = "pretty" THEN {prev} ELSE {NULL, prev}) :
       \E adj \in {NULL, prev} :
       \E r \in {parse_composite([mem EXCEPT !.adj = adj], text, T, prev_val)} :
        /\ mem' = [r.m EXCEPT !.adj = NULL]
        /\ result' = r.result
        /\ ret' = IF r.check THEN 1 ELSE 0
        /\ pc' = Append(pc, IF r.m.stack THEN "overflow"
                             ELSE IF prev_val = NULL THEN "parse" ELSE "patch")
    /\ mem0' = mem
    /\ UNCHANGED <<guc_types_hashtab, expand_array_view_thd, T, prev, text>>
    /\ UNCHANGED <<field_path, leaf_text, cur_ptr>>

NextText == PG_init \/ HostBoot \/ Serialize \/ Write \/ Convert \/ Parse \/ Cmp

SpecText == Init /\ [][NextText]_vars

(***************************************************************************)
(* Registration of one more record type, from a signature the host wrote  *)
(***************************************************************************)
S_p == <<"p">>
F_c == <<"c">>

MaxFields == 2          \* the most field definitions in a generated signature

LayoutFieldTypes == {S_bool, S_int, S_string, Arr(S_bool, 3), VarArr(S_n), Arr(S_n, 2)}
LayoutFieldNames == {F_a, F_b, F_c}
LayoutFields == [type : LayoutFieldTypes, name : LayoutFieldNames]

\* "type1 name1; type2 name2", with a ';' after the last field when trailing
RECURSIVE SignatureOf(_, _)
SignatureOf(fields, trailing) ==
    IF Len(fields) = 0 THEN IF trailing THEN <<";">> ELSE <<>>
    ELSE fields[1].type \o <<" ">> \o fields[1].name
         \o (IF Len(fields) > 1 THEN <<";", " ">> ELSE <<>>)
         \o SignatureOf(Tail(fields), trailing)

\* signatures that are not a list of "type name": "", ";", "int", "int a b", "zz a"
MalformedSignatures ==
    {<<>>, <<";">>, S_int, <<"i", "n", "t", " ", "a", " ", "b">>, <<"z", "z", " ", "a">>}

Signatures ==
    {SignatureOf(fs, tr) : fs \in UNION {[1..k -> LayoutFields] : k \in 1..MaxFields},
                           tr \in BOOLEAN}
    \cup MalformedSignatures

\* the host registers type p
DefineType ==
    /\ Len(pc) = Len(HostTypes)
    /\ Last(pc) = "define"
    /\ \E signature \in Signatures : \E trap \in BOOLEAN :
       \E r \in {init_type_definition(NewDefinition(S_p, signature))} :
        /\ guc_types_hashtab' = IF r.status = "sigfpe" /\ ~trap
                                THEN guc_types_hashtab @@ (S_p :> r.definition)
                                ELSE DefineCustomStructType(S_p, signature)
        /\ text' = signature
    /\ pc' = Append(pc, "define_p")
    /\ UNCHANGED <<expand_array_view_thd, mem, T, prev, result, ret, mem0>>
    /\ UNCHANGED <<field_path, leaf_text, cur_ptr>>

NextLayout == PG_init \/ DefineType

SpecLayout == Init /\ [][NextLayout]_vars

(***************************************************************************)
(* The scanner on its own: the host looks for a symbol in a text            *)
(***************************************************************************)
MaxScan == 3            \* the longest text the scanner is given

ScanChars == {"{", "}", "[", "]", "'", ",", "a"}
ScanTexts == UNION {[1..k -> ScanChars] : k \in 0..MaxScan}
ScanSymbols == {",", "}", "]"}

\* find_same_level_symbol(text, symbol) from the start of the text
Scan ==
    /\ pc = <<>>
    /\ \E s \in ScanTexts : \E symbol \in ScanSymbols :
       \E r \in {find_same_level_symbol(s \o <<NUL>>, 1, symbol)} :
        /\ text' = s
        /\ leaf_text' = <<symbol>>
        /\ ret' = r.status
        /\ result' = r.res_str
    /\ pc' = <<"scan">>
    /\ UNCHANGED <<guc_types_hashtab, expand_array_view_thd, mem, T, prev, mem0, field_path,
                   cur_ptr>>

NextScan == Scan

SpecScan == Init /\ [][NextScan]_vars

(***************************************************************************)
(* Claims about the walker                                                 *)
(***************************************************************************)
\* C6: free_struct(v, T) releases exactly once every block v owns: each
\* non-null string (also those of the elements of variable arrays), each
\* variable-array buffer and the root.
C6_FreeReleasesEveryBlockOnce ==
    Last(pc) = "free_prev" =>
        \A b \in ValueBlocks(mem0, prev, T) : mem.blk[b].frees = 1

\* C7: after d = struct_dup(v, T) no block of d is a block of v, and freeing
\* d with all it owns leaves every block of v allocated and as it was.
C7_DupSharesNoBlock ==
    /\ Last(pc) = "dup" =>
           ValueBlocks(mem, result, T) \cap ValueBlocks(mem, prev, T) = {}
    /\ Last(pc) = "free_result" =>
           \A b \in ValueBlocks(mem0, prev, T) : mem.blk[b] = mem0.blk[b] /\ Live(mem, b)

C7_Witness ==
    /\ Last(pc) = "free_result"
    /\ T = S_c
    /\ Cardinality(ValueBlocks(mem0, prev, T)) >= 3
    /\ Cardinality(ValueBlocks(mem0, result, T)) >= 3

\* C8: struct_cmp(struct_dup(v, T), v, T) = 0 for every value v.
C8_DupComparesEqual == Last(pc) = "cmp" => ret = 0

C8_Witness ==
    /\ Last(pc) = "cmp"
    /\ T = S_c
    /\ dynamic_array_size(mem, At(Root(prev), get_field_offset(S_c, F_v))) = 0
    /\ \E t \in RootTypes : t = T

(***************************************************************************)
(* Claims about the layout                                                 *)
(***************************************************************************)
\* the entries of a record's field table that init_type_definition filled in
DeclaredFields(def) == SelectSeq(def.fields, LAMBDA f : f # UninitField)

LayoutLawOf(type) ==
    LET def == get_type_definition(type)
        fs == DeclaredFields(def)
        off(i) == get_struct_field_offset(type, fs[i].name)
    IN  /\ def.offset > 0
        /\ def.type_size % def.offset = 0
        /\ \A i \in 1..Len(fs) : get_type_offset(fs[i].type) <= def.offset
        /\ \E i \in 1..Len(fs) : get_type_offset(fs[i].type) = def.offset
        /\ \A i \in 1..Len(fs) : off(i) >= 0 /\ off(i) % get_type_offset(fs[i].type) = 0
        /\ \A i \in 1..(Len(fs) - 1) : off(i + 1) >= off(i) + get_type_size(fs[i].type)
        /\ off(Len(fs)) + get_type_size(fs[Len(fs)].type) <= def.type_size

Records == {type \in DOMAIN guc_types_hashtab : guc_types_hashtab[type].cnt_fields > 0}

DistinctNames(type) ==
    LET fs == DeclaredFields(get_type_definition(type)) IN
    \A i, j \in 1..Len(fs) : fs[i].name = fs[j].name => i = j

\* C9 as stated: every registered record has a size that is a multiple of
\* its alignment, the alignment is the largest field alignment, every offset
\* get_struct_field_offset returns is a multiple of the field's alignment,
\* each field starts at or after the end of the field before it, and the
\* last field ends within the size.
C9_LayoutLawEveryRecord == \A type \in Records : LayoutLawOf(type)

\* C9 amended: the same law for every registered record that has a field
\* and whose field names are pairwise distinct.
C9_LayoutLawDistinctNames ==
    \A type \in Records :
        (DeclaredFields(get_type_definition(type)) # <<>> /\ DistinctNames(type))
        => LayoutLawOf(type)

\* a record with padding before a field: "bool a; n[2] b"
C9_Witness ==
    /\ S_p \in Records
    /\ DistinctNames(S_p)
    /\ get_type_definition(S_p).cnt_fields = 2
    /\ get_struct_field_type(S_p, F_a) = S_bool
    /\ get_struct_field_type(S_p, F_b) = Arr(S_n, 2)
    /\ get_struct_field_offset(S_p, F_b) = 8
    /\ get_type_definition(S_p).type_size = 40

(***************************************************************************)
(* Claims about texts                                                      *)
(***************************************************************************)
\* the operation performed k operations before the last one
Op(k) == IF Len(pc) > k THEN pc[Len(pc) - k] ELSE ""

IsRecord(type) ==
    /\ ~is_static_array_type(type)
    /\ ~is_dynamic_array_type(type)
    /\ ~is_atomic_type(type)
    /\ HasDefinition(type)

\* C1: wire round trip: for every value v of a registered type T (null
\* strings, the non-null string "nil", strings with single quotes and variable
\* arrays of length 0 included) struct_to_str(v, T, serialize = true) yields a
\* text, parse_composite of that text with prev_val = NULL succeeds, and
\* struct_cmp of its result with v is 0.
C1_WireRoundTrip ==
    /\ Op(0) = "wire" => text \notin {NullStr, SIGSEGV}
    /\ Op(0) = "parse" /\ Op(1) = "wire" => ret = 1
    /\ Op(0) = "cmp" /\ Op(1) = "parse" /\ Op(2) = "wire" => ret = 0

\* C2: idempotent patch: for every value v of a registered type T (strings
\* with a single quote included) struct_to_str(v, T, serialize = false) yields
\* a text, parse_composite of that text with prev_val = v succeeds, and
\* struct_cmp of its result with v is 0.
C2_IdempotentPatch ==
    /\ Op(0) = "pretty" => text \notin {NullStr, SIGSEGV}
    /\ Op(0) = "patch" /\ Op(1) = "pretty" => ret = 1
    /\ Op(0) = "cmp" /\ Op(1) = "patch" /\ Op(2) = "pretty" => ret = 0

\* C3: for a fixed array type T[N], parsing an array literal whose maximum
\* effective element index m is >= N (m = N in particular) fails, and no
\* element slot at an index >= N is written: no store lands behind the N slots.
C3_FixedArrayIndexChecked ==
    (/\ Op(0) \in {"parse", "patch"}
     /\ Op(1) = "write"
     /\ is_static_array_type(T)
     /\ check_array_syntax(text \o <<NUL>>, 1).status = PARSER_OK
     /\ check_array_syntax(text \o <<NUL>>, 1).res_int >= get_static_array_size(T))
    => ret = 0 /\ ~mem.ovf

C5_FailureReleasesAll ==
    Op(0) \in {"parse", "patch"} /\ ret = 0 /\ ~is_assignment_list(text) =>
        LiveBlocks(mem) = LiveBlocks(mem0)

\* the record literal in text names the field name
Names(name) ==
    find_field([guc_strdup(EmptyHeap, text) EXCEPT !.scheme = 1], 1, name).status = PARSER_OK

\* C10: record patch frame: when a record literal that names the set S of
\* fields is parsed successfully against the previous value p, every field of
\* the result that is not in S compares equal to the same field of p.
C10_RecordPatchFrame ==
    (/\ Op(0) = "patch"
     /\ Op(1) = "write"
     /\ ret = 1
     /\ IsRecord(T)
     /\ ~is_assignment_list(text))
    => \A i \in 1..get_type_definition(T).cnt_fields :
           Let([field \in {get_type_definition(T).fields[i]} |->
               Names(field.name)
               \/ struct_cmp(mem, At(Root(result), get_field_offset(T, field.name)),
                             At(Root(prev), get_field_offset(T, field.name)),
                             field.type) = 0])

\* C11: parsing the empty literal "[]", with or without white space inside,
\* for a fixed array type T[N] succeeds and leaves all N elements equal to
\* their previous values, whatever the element type (int, string, record).
C11_EmptyLiteralKeepsElements ==
    (/\ Op(0) = "patch"
     /\ Op(1) = "write"
     /\ is_static_array_type(T)
     /\ text \in EmptyLiterals)
    => ret = 1 /\ struct_cmp(mem, Root(result), Root(prev), T) = 0

\* the elements of a flat array literal, as the texts between its commas
Elems(lit) == strtok(SubSeq(lit, 2, Len(lit) - 1), {","})

\* the element carries an "index:" prefix
Prefixed(e) == \E i \in 1..Len(e) : e[i] = ":"

\* the index of element k (from 1) of the literal: its prefix, or its place
IndexOf(lit, k) == IF Prefixed(Elems(lit)[k]) THEN atoi(Elems(lit)[k], 1) ELSE k - 1

NamedIndices(lit) == {IndexOf(lit, k) : k \in 1..Len(Elems(lit))}

\* the largest of a non-empty set of numbers
MaxOf(S) == CHOOSE x \in S : \A y \in S : y <= x

\* every cell of element i of the buffer data is 0
ZeroElement(m, data, type, i) ==
    \A k \in 0..(get_type_size(get_array_basic_type(type)) - 1) :
        Load(m, At(Root(data), get_element_offset_with_index(type, i) + k)) = 0

\* C12: for a variable array of previous length p, a short-form literal [...]
\* with at least one element and maximum effective index m yields the length
\* max(m + 1, p); every index below p that the literal does not name keeps its
\* previous value, and every index >= p that it does not name is all-zero.
C12_ShortFormLength ==
    (/\ Op(0) \in {"parse", "patch"}
     /\ Op(1) = "write"
     /\ is_dynamic_array_type(T)
     /\ text[1] = "["
     /\ ret = 1)
    => Let([p \in {IF Op(0) = "patch" THEN dynamic_array_size(mem0, Root(prev)) ELSE 0} |->
           /\ dynamic_array_size(mem, Root(result)) = Max(MaxOf(NamedIndices(text)) + 1, p)
           /\ \A i \in 0..(dynamic_array_size(mem, Root(result)) - 1) :
                \/ i \in NamedIndices(text)
                \/ /\ i < p
                   /\ struct_cmp(mem, At(Root(Load(mem, Root(result))),
                                         get_element_offset_with_index(T, i)),
                                 At(Root(Load(mem0, Root(prev))),
                                    get_element_offset_with_index(T, i)),
                                 get_array_basic_type(T)) = 0
                \/ i >= p /\ ZeroElement(mem, Load(mem, Root(result)), T, i)])

C12_Witness ==
    /\ Op(0) = "patch"
    /\ Op(1) = "write"
    /\ T = VarArr(S_int)
    /\ ret = 1
    /\ text = <<"[", "3", ":", " ", "5", "]">>
    /\ dynamic_array_size(mem0, Root(prev)) = 2
    /\ dynamic_array_size(mem, Root(result)) = 4

\* C13: for a variable array of any previous length p >= 0, the extended
\* literal {size: N} with N >= 0 yields the length N, the elements below
\* min(p, N) equal to the previous ones and the elements in [p, N) all-zero.
C13_SizeOnlyResizes ==
    (/\ Op(0) \in {"parse", "patch"}
     /\ Op(1) = "write"
     /\ is_dynamic_array_type(T)
     /\ text \in SizeLiterals)
    => Let([p \in {IF Op(0) = "patch" THEN dynamic_array_size(mem0, Root(prev)) ELSE 0} |->
           /\ ret = 1
           /\ dynamic_array_size(mem, Root(result)) = atoi(text, 8)
           /\ \A i \in 0..(atoi(text, 8) - 1) :
                IF i < p
                THEN struct_cmp(mem, At(Root(Load(mem, Root(result))),
                                        get_element_offset_with_index(T, i)),
                                At(Root(Load(mem0, Root(prev))),
                                   get_element_offset_with_index(T, i)),
                                get_array_basic_type(T)) = 0
                ELSE ZeroElement(mem, Load(mem, Root(result)), T, i)])

\* the literal has an element with an "index:" prefix and one without
Mixed(lit) ==
    \E j, k \in 1..Len(Elems(lit)) : Prefixed(Elems(lit)[j]) /\ ~Prefixed(Elems(lit)[k])

\* C14: an array literal is accepted only if every element carries an
\* "index:" prefix or none does: a literal that mixes the two, in either order,
\* is rejected with a parse error; for an accepted literal the maximum index
\* computed is the largest prefix, or the element count minus one.
C14_IndexStyle ==
    (/\ Op(0) \in {"parse", "patch"}
     /\ Op(1) = "write"
     /\ T \in {VarArr(S_int), Arr(S_int, 2)}
     /\ text[1] = "["
     /\ text \notin EmptyLiterals)
    => Let([check_res \in {check_array_syntax(text \o <<NUL>>, 1)} |->
           /\ Mixed(text) => check_res.status = PARSER_ERR /\ ret = 0
           /\ check_res.status = PARSER_OK =>
                /\ ~Mixed(text)
                /\ check_res.res_int = MaxOf(NamedIndices(text))])

C14_Witness ==
    /\ Op(0) = "patch"
    /\ Op(1) = "write"
    /\ T = VarArr(S_int)
    /\ text = <<"[", "5", ",", " ", "1", ":", " ", "6", "]">>
    /\ ret = 0

\* the previous value the last parse_composite was given
PrevVal == IF Op(0) = "patch" THEN prev ELSE NULL

\* the pieces of a patch list
Patches(value) == strtok(value, {";"})

\* parse_composite of the pieces one after the other on the heap m, each
\* against the result of the one before, up to the first that fails: .k is
\* the number of pieces applied, .result the value they gave
RECURSIVE ApplyInTurn(_, _, _, _, _)
ApplyInTurn(m, pieces, type, val, k) ==
    IF k = Len(pieces) THEN [ok |-> TRUE, k |-> k, result |-> val, m |-> m]
    ELSE Let([next \in {parse_composite(m, pieces[k + 1], type, val)} |->
             IF ~next.check THEN [ok |-> FALSE, k |-> k, result |-> val, m |-> next.m]
             ELSE ApplyInTurn(next.m, pieces, type, next.result, k + 1)])

\* first and second are both NULL or compare equal
SameValue(m, first, second, type) ==
    IF first = NULL \/ second = NULL THEN first = second
    ELSE struct_cmp(m, Root(first), Root(second), type) = 0

\* C15: a patch list L1;L2;...;Ln; gives the value that parse_composite of
\* L1 against the previous value, then of L2 against that result, and so on
\* gives; a later patch of a field overrides an earlier one.
C15_PatchListInOrder ==
    (/\ Op(0) \in {"parse", "patch"}
     /\ Op(1) = "write"
     /\ is_assignment_list(text))
    => Let([f \in {ApplyInTurn(mem, Patches(text), T, PrevVal, 0)} |->
           /\ f.ok <=> ret = 1
           /\ f.ok => SameValue(f.m, result, f.result, T)])

C15_Witness ==
    /\ Op(0) = "patch"
    /\ Op(1) = "write"
    /\ T = S_n
    /\ text = <<"{", "p", ":", " ", "5", "}", ";", "{", "p", ":", " ", "6", "}", ";">>
    /\ ret = 1
    /\ Load(mem, At(Root(result), get_struct_field_offset(S_n, F_p))) = 6
    /\ Load(mem0, At(Root(prev), get_struct_field_offset(S_n, F_p))) # 6

\* C16: when piece k + 1 of a patch list fails after k pieces succeeded,
\* parse_composite returns false and leaves in *result a value that compares
\* equal to the previous value with the pieces 1..k applied; with k = 0 it
\* is a copy of the previous value.
C16_PatchListFailureKeepsPrefix ==
    (/\ Op(0) \in {"parse", "patch"}
     /\ Op(1) = "write"
     /\ is_assignment_list(text))
    => Let([f \in {ApplyInTurn(mem, Patches(text), T, PrevVal, 0)} |->
           ~f.ok =>
               /\ ret = 0
               /\ SameValue(f.m, result, f.result, T)
               /\ f.k = 0 => /\ SameValue(mem, result, PrevVal, T)
                             /\ result = NULL \/ result # PrevVal])

C16_Witness ==
    /\ Op(0) = "patch"
    /\ Op(1) = "write"
    /\ T = S_n
    /\ text = <<"{", "p", ":", " ", "5", "}", ";", "{", "p", ":", " ", "z", "z", "}", ";">>
    /\ ret = 0
    /\ result # NULL
    /\ Load(mem, At(Root(result), get_struct_field_offset(S_n, F_p))) = 5
    /\ Load(mem0, At(Root(prev), get_struct_field_offset(S_n, F_p))) # 5

\* the text that wraps value in one {name: ...} per name and one [n: ...] per
\* index of the components behind the first
RECURSIVE Spine(_, _, _)
Spine(components, i, value) ==
    IF i > Len(components) THEN value
    ELSE IF isdigit(components[i][1])
         THEN <<"[">> \o components[i] \o <<":", " ">> \o Spine(components, i + 1, value) \o <<"]">>
         ELSE <<"{">> \o components[i] \o <<":", " ">> \o Spine(components, i + 1, value) \o <<"}">>

\* the path is written with '.' and '[n]' only
Dotted(path) == \A i \in 1..Len(path) : path[i] \notin {"-", ">"}

\* C19: for a path written with '.' and '[n]', convert_path_composite drops
\* the first component and wraps the value in one '{name: ' ... '}' per name
\* component and one '[n: ' ... ']' per index component, closers in reverse
\* order of openers.
C19_ConvertDottedPath ==
    (Op(0) = "convert" /\ Dotted(field_path))
    => text = Spine(strtok(field_path, {".", "[", "]"}), 2, leaf_text)

\* the patch list that assigns the value to the path
Assignment(path, value) == path \o <<"=">> \o value \o <<";">>

\* C17: a patch list whose step is path=value; gives the same value as the
\* literal convert_path_composite builds from the path and the value, parsed
\* against the same previous value.
C17_PathAssignmentAsLiteral ==
    (Op(0) \in {"parse", "patch"} /\ Op(1) = "convert")
    => Let([a \in {parse_composite(mem, Assignment(field_path, leaf_text), T, PrevVal)} |->
           /\ a.check <=> ret = 1
           /\ a.check => SameValue(a.m, result, a.result, T)])

\* C18: struct_cmp returns -1, 0 or 1 for every registered type and every
\* pair of values, two variable arrays whose lengths differ by two or more
\* included.
C18_CmpIsSign ==
    Op(0) = "cmp" => ret \in {-1, 0, 1}

\* the storage of the array the host's value is: .p its first byte, .n the
\* number of its elements
Storage(m) ==
    IF is_static_array_type(T) THEN [p |-> Root(prev), n |-> get_static_array_size(T)]
    ELSE [p |-> Root(Load(m, Root(prev))), n |-> dynamic_array_size(m, Root(prev))]

\* the index the path x[k] names
PathIndex(path) == atoi(path, 3)

\* C20: get_nest_field_ptr returns NULL when a step of the path indexes a
\* fixed array T[N] outside [0, N) or a variable array outside [0, size); it
\* never returns a pointer outside the storage of the array.
C20_ResolveChecksIndex ==
    (/\ Op(0) = "resolve"
     /\ is_static_array_type(T) \/ is_dynamic_array_type(T)
     /\ field_path \in IndexPaths)
    => IF PathIndex(field_path) >= Storage(mem0).n
       THEN cur_ptr = NullPtr
       ELSE cur_ptr = At(Storage(mem0).p,
                         get_element_offset_with_index(T, PathIndex(field_path)))

(***************************************************************************)
(* Claims about registration                                               *)
(***************************************************************************)
\* the words of the field definitions of a signature
FieldWords(sig) ==
    [i \in 1..Len(strtok(sig, {";"})) |-> strtok(strtok(sig, {";"})[i], {" ", "\t", "\n"})]

\* the signature is empty, holds no field definition, holds one that is not
\* two words, or names a type that has no size
Malformed(sig) ==
    \/ FieldWords(sig) = <<>>
    \/ \E i \in 1..Len(FieldWords(sig)) :
          \/ Len(FieldWords(sig)[i]) # 2
          \/ get_type_size(FieldWords(sig)[i][1]) < 0

\* C21: init_type_definition fails with an error and leaves the definition
\* unset when the signature is empty, holds no field definition (";"), holds
\* a field definition that is not two words or names an unknown type; it
\* succeeds only with at least one field.
C21_MalformedSignatureRejected ==
    Op(0) = "define_p" =>
        Let([r \in {init_type_definition(NewDefinition(S_p, text))} |->
            /\ Malformed(text) => r.status = "error" /\ ~HasDefinition(S_p)
            /\ r.status = "ok" => ~Malformed(text)
            /\ HasDefinition(S_p) => DeclaredFields(get_type_definition(S_p)) # <<>>])

\* C27: after init_type_definition succeeds, cnt_fields is the number of
\* entries of the field table it filled in, also for a signature with a
\* trailing ';'.
C27_FieldCountIsFilled ==
    (Op(0) = "define_p" /\ HasDefinition(S_p)
       /\ init_type_definition(NewDefinition(S_p, text)).status = "ok")
    => get_type_definition(S_p).cnt_fields = Len(DeclaredFields(get_type_definition(S_p)))

(***************************************************************************)
(* Claims about the scanner                                                *)
(***************************************************************************)
\* position i of s is outside every single-quoted string: an even number of
\* quotes stands before it (for texts without doubled quotes)
Outside(s, i) == Cardinality({j \in 1..(i - 1) : s[j] = "'"}) % 2 = 0

NoDoubledQuote(s) == \A j \in 1..(Len(s) - 1) : ~(s[j] = "'" /\ s[j + 1] = "'")

\* the openers minus the closers outside strings before position i
Depth(s, i, open, close) ==
    Cardinality({j \in 1..(i - 1) : s[j] = open /\ Outside(s, j)})
      - Cardinality({j \in 1..(i - 1) : s[j] = close /\ Outside(s, j)})

\* C22: find_same_level_symbol returns PARSER_OK only when the position it
\* returns holds the symbol, is outside every single-quoted string, and the
\* brace counter and the bracket counter are both zero there; otherwise it
\* returns PARSER_NOT_FOUND.
C22_FoundOnlyOnLevel ==
    (Op(0) = "scan" /\ NoDoubledQuote(text))
    => /\ ret \in {PARSER_OK, PARSER_NOT_FOUND}
       /\ ret = PARSER_OK =>
            /\ result \in 1..Len(text)
            /\ text[result] = leaf_text[1]
            /\ Outside(text, result)
            /\ Depth(text, result, "{", "}") = 0
            /\ Depth(text, result, "[", "]") = 0

(***************************************************************************)
(* Claims about the parser's buffers                                       *)
(***************************************************************************)
\* the scratch copy parse_composite made of a single literal: the first
\* block the call allocated
Scratch == mem.blk[Len(mem0.blk) + 1].data

\* C23: after a successful parse the scratch copy of the input is byte for
\* byte what it was before: every character the parser overwrote with a
\* terminator, a white space in front of a ',' ']' or '}' included, is
\* restored.
C23_ScratchRestored ==
    (/\ Op(0) \in {"parse", "patch"}
     /\ ~is_assignment_list(text)
     /\ ret = 1)
    => Scratch = text \o <<NUL>>

(***************************************************************************)
(* Claims about compare                                                    *)
(***************************************************************************)
\* the two ints of a value of type int[2]
IntsOf(m, p) == <<Load(m, Root(p)), Load(m, At(Root(p), SizeofInt))>>

\* -1, 0 or 1 as a is below, equal to or above b
Order(a, b) == IF a < b THEN -1 ELSE IF a = b THEN 0 ELSE 1

\* C24: for int, struct_cmp(a, b) is -1 when a < b, 0 when a = b and 1 when
\* a > b for every pair of 32-bit integers, those whose difference does not
\* fit in 32 bits included; hence struct_cmp(a, b) = -struct_cmp(b, a).
C24_IntCmpIsOrder ==
    (/\ Op(0) = "cmp"
     /\ Op(1) \in {"parse", "patch"}
     /\ T = Arr(S_int, 2)
     /\ IntsOf(mem, result)[1] = IntsOf(mem, prev)[1])
    => /\ ret = Order(IntsOf(mem, result)[2], IntsOf(mem, prev)[2])
       /\ struct_cmp(mem, Root(prev), Root(result), T) = 0 - ret

\* C25: after a successful parse_composite (single literal or patch list)
\* every block allocated during the call is reachable from the returned
\* value or has been released: copies of field names, strings replaced by a
\* new assignment, strings of dropped elements, intermediate accumulators.
C25_SuccessKeepsOnlyResult ==
    (Op(0) \in {"parse", "patch"} /\ ret = 1)
    => \A b \in (Len(mem0.blk) + 1)..Len(mem.blk) :
           Live(mem, b) => b \in ValueBlocks(mem, result, T)

(***************************************************************************)
(* Claims about termination                                                *)
(***************************************************************************)
\* C26: parse_composite returns after finitely many steps and with bounded
\* recursion depth on every text, also one that ends in a ';' inside an
\* unclosed brace, bracket or string, such as "{p: 1;".
C26_ParseTerminates == Op(0) # "overflow"

(***************************************************************************)
(* Claims about the serializer                                             *)
(***************************************************************************)
\* C28: for a variable array of length 0 struct_to_str reads no element of
\* its parts array and returns "[]", or "{size: 0, data: []}" when the
\* expand threshold is 0.
C28_EmptyArrayText ==
    (/\ Op(0) \in {"wire", "pretty"}
     /\ is_dynamic_array_type(T)
     /\ dynamic_array_size(mem, Root(prev)) = 0)
    => text = (IF expand_array_view_thd = 0
               THEN <<"{", "s", "i", "z", "e", ":", " ", "0", ",", " ",
                      "d", "a", "t", "a", ":", " ", "[", "]", "}">>
               ELSE <<"[", "]">>)

(***************************************************************************)
(* Claims about paths                                                      *)
(***************************************************************************)
\* C29: for every type, value and path get_nest_field_type returns a type
\* exactly when get_nest_field_ptr returns a pointer; a key that is no number
\* applied to an array and a key applied to an atomic are rejected by both.
C29_TypeIffPointer ==
    Op(0) = "resolve" => (text # NullStr <=> cur_ptr # NullPtr)

\* C30: get_length_struct_str(v, T) is at least the size of the buffer the
\* serialized text needs: strlen(struct_to_str(v, T, true)) + 1, for records
\* with named fields, negative ints and strings with quotes as well.
C30_LengthBoundsText ==
    (Op(0) = "wire" /\ text \notin {NullStr, SIGSEGV})
    => ret >= Len(text) + 1

====
